---- MODULE Spec2Model ----
(***************************************************************************)
(* AulaMetrics: evaluation campaigns, participation tracking, the survey   *)
(* completion hook, the alert engine and the role-scoped dashboards,       *)
(* modelled as state machines over the persisted records.                  *)
(***************************************************************************)
EXTENDS Integers, Sequences, FiniteSets, TLC

\* ------------------------------------------------------------------------
\* Bounds of the model
\* ------------------------------------------------------------------------
MaxTime == 2

Evaluations == {1}
Groups == {1, 2}
Surveys == {1, 2}
Students == {1, 2}
Times == 0..MaxTime

\* academic_group_id = False, completed_at = False, tutor_id = False
NoGroup == 0
NoTime == -1
NoUser == 0

EvaluationStates == {"draft", "scheduled", "active", "closed", "cancelled"}
ParticipationStates == {"pending", "completed", "expired"}

VARIABLES
    now,            \* fields.Datetime.now()
    evalState,      \* evaluation.state
    evalSurveys,    \* evaluation.survey_ids
    evalGroups,     \* evaluation.academic_group_ids
    dateStart,      \* evaluation.date_start
    dateEnd,        \* evaluation.date_end
    studentGroup,   \* res.partner.academic_group_id
    parts,          \* the aulametrics.participation rows
    last,           \* the last operation and what it was called on
    inputs,         \* the survey.user_input rows
    thresholds,     \* the aulametrics.threshold rows
    alerts,         \* the aulametrics.alert rows
    keywords,       \* the aulametrics.alert_keyword rows
    user_groups,    \* the security groups of request.env.user
    tutor_id,       \* academic_group.tutor_id
    metric_values,  \* the aulametrics.metric_value rows
    qualitative,    \* the aulametrics.qualitative_response rows
    response        \* what the last dashboard request selected

\* the records of the campaign, of the completion hook, of the alert engine
\* and of the dashboards
campaignVars == <<now, evalState, evalSurveys, evalGroups, dateStart, dateEnd,
                  studentGroup, parts, last>>
hookVars == <<inputs>>
alertVars == <<thresholds, alerts, keywords>>
dashboardVars == <<user_groups, tutor_id, metric_values, qualitative, response>>

vars == <<campaignVars, hookVars, alertVars, dashboardVars>>

\* ------------------------------------------------------------------------
\* Helpers
\* ------------------------------------------------------------------------
Min(S) == CHOOSE x \in S : \A y \in S : x <= y

RECURSIVE SortedSeq(_)
\* a recordset of ids in id order
SortedSeq(S) == IF S = {} THEN <<>> ELSE <<Min(S)>> \o SortedSeq(S \ {Min(S)})

\* group.student_ids (One2many over res.partner.academic_group_id)
student_ids(g) == {s \in Students : studentGroup[s] = g}

\* evaluation.participation_ids
participation_ids(ps, e) == {p \in ps : p.evaluation_id = e}

\* the record of an operation: its name, the evaluation or the participation
\* (by token) it was called on, whether it raised, the evaluation state it
\* started from and the number of rows it created
OpN(name, e, p, raised, n) ==
    [op |-> name, e |-> e, p |-> p, raised |-> raised,
     from |-> IF e \in Evaluations THEN evalState[e] ELSE "none", created |-> n]

Op(name, e, p, raised) == OpN(name, e, p, raised, 0)

\* ------------------------------------------------------------------------
\* Participation
\* ------------------------------------------------------------------------

\* UNIQUE(evaluation_id, student_id)
unique_student_evaluation(ps, e, s) ==
    ~ \E p \in ps : p.evaluation_id = e /\ p.student_id = s

\* Participation.create: state pending, no completed_at, and a token generated
\* once for the row (uuid4: a value no other row has)
ParticipationCreate(ps, e, s) ==
    LET n == Cardinality({p \in ps : p.evaluation_id = e /\ p.student_id = s})
    IN ps \cup {[evaluation_id |-> e, student_id |-> s, state |-> "pending",
                 completed_at |-> NoTime, evaluation_token |-> <<e, s, n + 1>>]}

\* Participation.action_expire on one record
ExpireOne(p) == IF p.state = "pending" THEN [p EXCEPT !.state = "expired"] ELSE p

\* Participation.action_expire on the recordset sel
ExpireAll(ps, sel) == {IF p \in sel THEN ExpireOne(p) ELSE p : p \in ps}

\* action_complete without its test of the state
CompleteOne_NoGuard(p, t) == [p EXCEPT !.state = "completed", !.completed_at = t]

\* Participation.action_complete, the write of state and completed_at
CompleteOne(p, t) ==
    IF p.state = "pending"
    THEN [p EXCEPT !.state = "completed", !.completed_at = t]
    ELSE p

\* ------------------------------------------------------------------------
\* Evaluation
\* ------------------------------------------------------------------------

RECURSIVE StudentsInOrder(_)
\* the students _create_participations visits: for group in academic_group_ids,
\* for student in group.student_ids
StudentsInOrder(gs) ==
    IF gs = <<>> THEN <<>>
    ELSE SortedSeq(student_ids(Head(gs))) \o StudentsInOrder(Tail(gs))

RECURSIVE CreateLoop_AnyStudent(_, _, _)
\* _create_participations with a search for existing rows that leaves out the student
CreateLoop_AnyStudent(ps, e, ss) ==
    IF ss = <<>> THEN [ok |-> TRUE, parts |-> ps]
    ELSE LET s == Head(ss)
             existing == {p \in ps : p.evaluation_id = e}
         IN IF existing # {} THEN CreateLoop_AnyStudent(ps, e, Tail(ss))
            ELSE IF ~unique_student_evaluation(ps, e, s) THEN [ok |-> FALSE, parts |-> ps]
            ELSE CreateLoop_AnyStudent(ParticipationCreate(ps, e, s), e, Tail(ss))

RECURSIVE CreateLoop(_, _, _)
\* the body of _create_participations over the remaining students; ok = FALSE
\* when a create is rejected by the unique constraint
CreateLoop(ps, e, ss) ==
    IF ss = <<>> THEN [ok |-> TRUE, parts |-> ps]
    ELSE LET s == Head(ss)
             existing == {p \in ps : p.evaluation_id = e /\ p.student_id = s}
         IN IF existing # {} THEN CreateLoop(ps, e, Tail(ss))
            ELSE IF ~unique_student_evaluation(ps, e, s) THEN [ok |-> FALSE, parts |-> ps]
            ELSE CreateLoop(ParticipationCreate(ps, e, s), e, Tail(ss))

_create_participations(ps, e) ==
    CreateLoop(ps, e, StudentsInOrder(SortedSeq(evalGroups[e])))

\* action_schedule without the check of the groups
ScheduleValid_SurveysOnly(e) == evalSurveys[e] # {}

\* the two checks at the head of action_schedule
ScheduleValid(e) == evalSurveys[e] # {} /\ evalGroups[e] # {}

action_schedule(e) ==
    LET r == _create_participations(parts, e)
    IN /\ IF ~ScheduleValid(e) \/ ~r.ok
          THEN /\ UNCHANGED <<evalState, parts>>
               /\ last' = Op("action_schedule", e, <<>>, TRUE)
          ELSE /\ evalState' = [evalState EXCEPT ![e] = "scheduled"]
               /\ parts' = r.parts
               /\ last' = OpN("action_schedule", e, <<>>, FALSE,
                               Cardinality(r.parts) - Cardinality(parts))
       /\ UNCHANGED <<now, evalSurveys, evalGroups, dateStart, dateEnd, studentGroup,
                    hookVars, alertVars, dashboardVars>>

\* action_activate: the state write; the activation e-mails are best effort
\* and leave no record
action_activate(e) ==
    /\ evalState' = [evalState EXCEPT ![e] = "active"]
    /\ last' = Op("action_activate", e, <<>>, FALSE)
    /\ UNCHANGED <<now, evalSurveys, evalGroups, dateStart, dateEnd, studentGroup, parts,
                 hookVars, alertVars, dashboardVars>>

\* action_close filtering on the wrong state
CloseParts_WrongFilter(ps, e) ==
    ExpireAll(ps, {p \in participation_ids(ps, e) : p.state = "completed"})

\* the participations action_close expires
CloseParts(ps, e) ==
    ExpireAll(ps, {p \in participation_ids(ps, e) : p.state = "pending"})

RECURSIVE CloseAll(_, _)
\* action_close called on one evaluation after the other
CloseAll(ps, es) ==
    IF es = <<>> THEN ps ELSE CloseAll(CloseParts(ps, Head(es)), Tail(es))

action_close(e) ==
    /\ evalState' = [evalState EXCEPT ![e] = "closed"]
    /\ parts' = CloseParts(parts, e)
    /\ last' = Op("action_close", e, <<>>, FALSE)
    /\ UNCHANGED <<now, evalSurveys, evalGroups, dateStart, dateEnd, studentGroup,
                 hookVars, alertVars, dashboardVars>>

action_cancel(e) ==
    /\ evalState' = [evalState EXCEPT ![e] = "cancelled"]
    /\ last' = Op("action_cancel", e, <<>>, FALSE)
    /\ UNCHANGED <<now, evalSurveys, evalGroups, dateStart, dateEnd, studentGroup, parts,
                 hookVars, alertVars, dashboardVars>>

action_reset_to_draft(e) ==
    /\ evalState' = [evalState EXCEPT ![e] = "draft"]
    /\ last' = Op("action_reset_to_draft", e, <<>>, FALSE)
    /\ UNCHANGED <<now, evalSurveys, evalGroups, dateStart, dateEnd, studentGroup, parts,
                 hookVars, alertVars, dashboardVars>>

\* the second search of auto_update_evaluation_states, run on the states as
\* they were before the activations
search_active_expired_Stale(st) ==
    {e \in Evaluations : evalState[e] = "active" /\ dateEnd[e] <= now}

\* the second search of auto_update_evaluation_states: state = active and
\* date_end <= now, on the states st the activations have left
search_active_expired(st) ==
    {e \in Evaluations : st[e] = "active" /\ dateEnd[e] <= now}

\* auto_update_evaluation_states: activate the scheduled evaluations whose
\* start has passed, then search again and close the active ones whose end
\* has passed; the operation records the evaluations it activated
auto_update_evaluation_states ==
    LET scheduled_evaluations ==
            {e \in Evaluations : evalState[e] = "scheduled" /\ dateStart[e] <= now}
        st1 == [e \in Evaluations |->
                    IF e \in scheduled_evaluations THEN "active" ELSE evalState[e]]
        active_evaluations == search_active_expired(st1)
        st2 == [e \in Evaluations |->
                    IF e \in active_evaluations THEN "closed" ELSE st1[e]]
    IN /\ evalState' = st2
       /\ parts' = CloseAll(parts, SortedSeq(active_evaluations))
       /\ last' = Op("auto_update_evaluation_states", 0,
                     SortedSeq(scheduled_evaluations), FALSE)
       /\ UNCHANGED <<now, evalSurveys, evalGroups, dateStart, dateEnd, studentGroup,
                    hookVars, alertVars, dashboardVars>>

\* Participation.action_complete; with no response record on file
\* _calculate_scores finds nothing to score
action_complete(p) ==
    /\ p \in parts
    /\ parts' = (parts \ {p}) \cup {CompleteOne(p, now)}
    /\ last' = Op("action_complete", 0, p.evaluation_token, FALSE)
    /\ UNCHANGED <<now, evalState, evalSurveys, evalGroups, dateStart, dateEnd, studentGroup,
                 hookVars, alertVars, dashboardVars>>

\* Participation.action_expire
action_expire(p) ==
    /\ p \in parts
    /\ parts' = ExpireAll(parts, {p})
    /\ last' = Op("action_expire", 0, p.evaluation_token, FALSE)
    /\ UNCHANGED <<now, evalState, evalSurveys, evalGroups, dateStart, dateEnd, studentGroup,
                 hookVars, alertVars, dashboardVars>>

\* a student is moved to another group, or out of every group
write_academic_group(s, g) ==
    /\ studentGroup[s] # g
    /\ studentGroup' = [studentGroup EXCEPT ![s] = g]
    /\ last' = Op("write_academic_group", 0, <<>>, FALSE)
    /\ UNCHANGED <<now, evalState, evalSurveys, evalGroups, dateStart, dateEnd, parts,
                 hookVars, alertVars, dashboardVars>>

Tick ==
    /\ now < MaxTime
    /\ now' = now + 1
    /\ last' = Op("tick", 0, <<>>, FALSE)
    /\ UNCHANGED <<evalState, evalSurveys, evalGroups, dateStart, dateEnd, studentGroup, parts,
                 hookVars, alertVars, dashboardVars>>

\* ------------------------------------------------------------------------
\* Specification of the evaluation life cycle
\* ------------------------------------------------------------------------
NoOp == [op |-> "init", e |-> 0, p |-> <<>>, raised |-> FALSE, from |-> "none",
         created |-> 0]

\* no response, no threshold, no alert, no alert keyword and no dashboard
\* request yet
NoResponse ==
    [route |-> "none", role |-> "none", status |-> 0, requested |-> {},
     group_ids |-> {}, metric_rows |-> {}, students |-> {}, qualitative_rows |-> {},
     frame |-> {}, student_rows |-> {}]

HookIdle == inputs = {}

AlertIdle == thresholds = {} /\ alerts = {} /\ keywords = {}

DashboardIdle ==
    /\ user_groups = {}
    /\ tutor_id = [g \in Groups |-> NoUser]
    /\ metric_values = {}
    /\ qualitative = {}
    /\ response = NoResponse

\* an evaluation as created: draft, with the surveys and groups chosen on the
\* form (either can be left empty) and date_end > date_start
Init ==
    /\ now = 0
    /\ evalState = [e \in Evaluations |-> "draft"]
    /\ evalSurveys \in [Evaluations -> {{}, {1}}]
    /\ evalGroups \in [Evaluations -> {{}, {1}, {1, 2}}]
    /\ dateStart = [e \in Evaluations |-> 1]
    /\ dateEnd = [e \in Evaluations |-> 2]
    /\ studentGroup \in [Students -> {NoGroup, 1, 2}]
    /\ parts = {}
    /\ last = NoOp
    /\ HookIdle
    /\ AlertIdle
    /\ DashboardIdle

Next ==
    \/ \E e \in Evaluations : action_schedule(e)
    \/ \E e \in Evaluations : action_activate(e)
    \/ \E e \in Evaluations : action_close(e)
    \/ \E e \in Evaluations : action_cancel(e)
    \/ \E e \in Evaluations : action_reset_to_draft(e)
    \/ auto_update_evaluation_states
    \/ \E p \in parts : action_complete(p)
    \/ \E p \in parts : action_expire(p)
    \/ \E s \in Students, g \in Groups \cup {NoGroup} : write_academic_group(s, g)
    \/ Tick

Spec == Init /\ [][Next]_vars

TypeOK ==
    /\ now \in Times
    /\ evalState \in [Evaluations -> EvaluationStates]
    /\ \A p \in parts : p.state \in ParticipationStates
\* ------------------------------------------------------------------------
\* Properties of the evaluation life cycle
\* ------------------------------------------------------------------------

\* the state changes the documented machine has
AllowedChange(from, to, op) ==
    \/ from = "draft" /\ to = "scheduled"
    \/ from = "scheduled" /\ to = "active"
    \/ from = "active" /\ to = "closed"
    \/ to = "cancelled" /\ from # "closed"
    \/ to = "draft" /\ op = "action_reset_to_draft"

\* C1: every change of an evaluation's state made by the state actions or by
\* auto_update_evaluation_states is draft->scheduled, scheduled->active,
\* active->closed, a change to cancelled from a state other than closed, or a
\* change to draft by action_reset_to_draft.
C1_OnlyDocumentedChanges ==
    [][\A e \in Evaluations :
          evalState'[e] # evalState[e]
             => AllowedChange(evalState[e], evalState'[e], last'.op)]_vars

\* C2: a participation's state only changes from pending to completed (by
\* action_complete) or from pending to expired (by action_expire, also when
\* action_close calls it); a completed or expired participation keeps its
\* state and completed_at whatever is called on it, and no row disappears.
C2_ParticipationOneWay ==
    [][\A p \in parts :
          \/ p \in parts'
          \/ /\ p.state = "pending"
             /\ \/ /\ last'.op = "action_complete"
                   /\ [p EXCEPT !.state = "completed", !.completed_at = now] \in parts'
                \/ /\ last'.op \in {"action_expire", "action_close",
                                    "auto_update_evaluation_states"}
                   /\ [p EXCEPT !.state = "expired"] \in parts']_vars

\* action_complete or action_expire has just been called on a participation
\* that was no longer pending
C2_Witness ==
    \E p \in parts :
        /\ last.p = p.evaluation_token
        /\ \/ last.op = "action_expire" /\ p.state = "completed"
           \/ last.op = "action_complete" /\ p.state = "expired"

ParticipationsOf(ps, e, s) == {p \in ps : p.evaluation_id = e /\ p.student_id = s}

C4_AtMostOne ==
    \A e \in Evaluations, s \in Students : Cardinality(ParticipationsOf(parts, e, s)) <= 1

C4_AfterSchedule ==
    (last.op = "action_schedule" /\ ~last.raised)
        => \A g \in evalGroups[last.e] : \A s \in student_ids(g) :
               Cardinality(ParticipationsOf(parts, last.e, s)) = 1

C4_ScheduleStep ==
    last'.op = "action_schedule"
        => /\ parts \subseteq parts'
           /\ \A q \in parts' \ parts :
                 /\ q.evaluation_id = last'.e
                 /\ ParticipationsOf(parts, q.evaluation_id, q.student_id) = {}

\* C4: there is at most one participation per (evaluation, student); after a
\* successful action_schedule every student of every assigned group has
\* exactly one for the evaluation; and an action_schedule creates rows only for
\* students that had none and leaves every existing row (state, token) as it was.
C4_ParticipationUnique ==
    [](C4_AtMostOne /\ C4_AfterSchedule) /\ [][C4_ScheduleStep]_vars

\* action_schedule has been called again on a scheduled evaluation that
\* already had a completed participation, and it added one for a student who
\* joined a group since
C4_Witness ==
    /\ last.op = "action_schedule" /\ ~last.raised /\ last.from = "scheduled"
    /\ \E p \in parts : p.evaluation_id = last.e /\ p.state = "completed"
    /\ last.created = 1
    /\ \E p \in parts : p.evaluation_id = last.e /\ p.state = "pending"

\* the evaluations an operation has just closed
ClosedBy(op, pre, post) ==
    {e \in Evaluations :
        \/ op.op = "action_close" /\ op.e = e
        \/ op.op = "auto_update_evaluation_states" /\ pre[e] # "closed"
                                                   /\ post[e] = "closed"}

\* C5: after action_close on an evaluation (called directly or by
\* auto_update_evaluation_states) the evaluation is closed and none of its
\* participations is pending: each one that was pending is expired, each one
\* that was completed is still completed.
C5_CloseExpiresPending ==
    [][\A e \in ClosedBy(last', evalState, evalState') :
          /\ evalState'[e] = "closed"
          /\ \A q \in participation_ids(parts', e) : q.state # "pending"
          /\ \A p \in participation_ids(parts, e) :
                /\ p.state = "pending" => [p EXCEPT !.state = "expired"] \in parts'
                /\ p.state = "completed" => p \in parts']_vars

\* an evaluation has just been closed with one participation expired and
\* another one completed
C5_Witness ==
    /\ last.op \in {"action_close", "auto_update_evaluation_states"}
    /\ \E e \in Evaluations :
          /\ evalState[e] = "closed"
          /\ \E p \in participation_ids(parts, e) : p.state = "expired"
          /\ \E p \in participation_ids(parts, e) : p.state = "completed"

\* C6: action_schedule on an evaluation that has no survey, or that has no
\* academic group, raises, leaves the evaluation's state unchanged and creates
\* no participation.
C6_ScheduleNeedsSurveyAndGroup ==
    [][(/\ last'.op = "action_schedule"
        /\ (evalSurveys[last'.e] = {} \/ evalGroups[last'.e] = {}))
          => /\ last'.raised
             /\ evalState' = evalState
             /\ parts' = parts]_vars

\* action_schedule has just raised on an evaluation with surveys, no group,
\* while students sit in groups
C6_Witness ==
    /\ last.op = "action_schedule" /\ last.raised
    /\ evalSurveys[last.e] # {} /\ evalGroups[last.e] = {}
    /\ \E s \in Students : studentGroup[s] # NoGroup
    /\ parts = {}

\* ------------------------------------------------------------------------
\* The alert engine (aulametrics.alert, aulametrics.threshold)
\* ------------------------------------------------------------------------
AlertStatuses == {"active", "resolved", "dismissed"}
AlertLevels == {"individual", "group"}

\* participation_id = False and student_id = False of a group alert
NoParticipation == <<>>
NoStudent == 0

\* the columns of aulametrics.threshold
ThresholdFields ==
    {"id", "name", "score_field", "threshold_value", "operator", "active",
     "alert_message", "severity", "group_threshold_percentage"}

\* survey.survey_code: survey 1 is an official questionnaire, survey 2 is one
\* of the centre's own (no code)
survey_code == [sv \in Surveys |-> IF sv = 1 THEN "WHO5" ELSE ""]

\* the option _get_score_field_options offers for a survey: its survey_code,
\* or survey_<id> when it has none
_get_score_field_options(sv) ==
    IF survey_code[sv] # "" THEN survey_code[sv]
    ELSE IF sv = 1 THEN "survey_1" ELSE "survey_2"

\* Model.search on a domain: a leaf on a name that is no field of the model
\* raises ValueError
valid_domain(fields, names) == names \subseteq fields

\* getattr(participation, threshold.score_field, 0)
getattr(p, name, default) == IF name \in DOMAIN p THEN p[name] ELSE default

RECURSIVE ById(_)
\* a recordset in id order
ById(S) ==
    IF S = {} THEN <<>>
    ELSE LET m == CHOOSE x \in S : \A y \in S : x.id <= y.id
         IN <<m>> \o ById(S \ {m})

\* Alert.create: status and alert_level take their defaults unless given
AlertCreate(al, vals) ==
    al \cup {[id |-> Cardinality(al) + 1,
              threshold_id |-> vals.threshold_id,
              participation_id |-> vals.participation_id,
              student_id |-> vals.student_id,
              academic_group_id |-> vals.academic_group_id,
              score_value |-> vals.score_value,
              alert_level |-> vals.alert_level,
              status |-> "active",
              resolution_action |-> 0,
              resolution_date |-> NoTime]}

_create_alert(al, p, t, score_value, alert_level) ==
    LET group == studentGroup[p.student_id]
        existing == {a \in al :
                        /\ a.threshold_id = t.id
                        /\ a.alert_level = alert_level
                        /\ IF alert_level = "individual"
                           THEN a.participation_id = p.evaluation_token
                           ELSE a.academic_group_id = group}
    IN IF existing # {} THEN al
       ELSE AlertCreate(al, [threshold_id |-> t.id,
                             participation_id |-> IF alert_level = "individual"
                                                  THEN p.evaluation_token
                                                  ELSE NoParticipation,
                             student_id |-> IF alert_level = "individual"
                                            THEN p.student_id ELSE NoStudent,
                             academic_group_id |-> group,
                             score_value |-> score_value,
                             alert_level |-> alert_level])

\* the comparison of check_alerts_for_participation
is_alert(t, score_value) ==
    \/ t.operator = ">" /\ score_value > t.threshold_value
    \/ t.operator = "<" /\ score_value < t.threshold_value

RECURSIVE IndividualLoop(_, _, _)
\* the loop over the thresholds found
IndividualLoop(al, ts, p) ==
    IF ts = <<>> THEN al
    ELSE LET t == Head(ts)
             score_value == getattr(p, t.score_field, 0)
         IN IF score_value = 0 THEN IndividualLoop(al, Tail(ts), p)
            ELSE IF is_alert(t, score_value)
                 THEN IndividualLoop(_create_alert(al, p, t, score_value, "individual"),
                                     Tail(ts), p)
                 ELSE IndividualLoop(al, Tail(ts), p)

\* group.student_count or len(group.student_ids); no group, no students
total_students(group) ==
    IF group = NoGroup THEN 0 ELSE Cardinality(student_ids(group))

RECURSIVE GroupLoop(_, _, _, _)
\* the loop of _check_all_group_alerts; counts is read before the loop
GroupLoop(al, ts, group, counts) ==
    IF ts = <<>> THEN al
    ELSE LET t == Head(ts)
             active_alerts == counts[t.id]
             existing == {a \in al :
                             /\ a.threshold_id = t.id
                             /\ a.academic_group_id = group
                             /\ a.alert_level = "group"
                             /\ a.status = "active"}
             percentage == (active_alerts * 100) \div total_students(group)
         IN IF /\ active_alerts * 100 >= t.group_threshold_percentage * total_students(group)
               /\ existing = {}
            THEN GroupLoop(AlertCreate(al, [threshold_id |-> t.id,
                                            participation_id |-> NoParticipation,
                                            student_id |-> NoStudent,
                                            academic_group_id |-> group,
                                            score_value |-> percentage,
                                            alert_level |-> "group"]),
                           Tail(ts), group, counts)
            ELSE GroupLoop(al, Tail(ts), group, counts)

_check_all_group_alerts(al, ths, p) ==
    LET group == studentGroup[p.student_id]
        found == {t \in ths :
                     /\ t.active
                     /\ t.survey_id \in evalSurveys[p.evaluation_id]
                     /\ t.group_threshold_percentage > 0}
        counts == [i \in {t.id : t \in found} |->
                      Cardinality({a \in al :
                                      /\ a.threshold_id = i
                                      /\ a.academic_group_id = group
                                      /\ a.status = "active"
                                      /\ a.alert_level = "individual"})]
    IN IF ~valid_domain(ThresholdFields,
                        {"active", "survey_id", "group_threshold_percentage"})
       THEN [ok |-> FALSE, alerts |-> al]
       ELSE IF found = {} \/ total_students(group) = 0
            THEN [ok |-> TRUE, alerts |-> al]
            ELSE [ok |-> TRUE, alerts |-> GroupLoop(al, ById(found), group, counts)]

\* Alert.check_alerts_for_participation: the search for the thresholds comes
\* first, and an exception leaves the method at once
check_alerts_for_participation(al, ths, p) ==
    IF ~valid_domain(ThresholdFields, {"active", "survey_id"})
    THEN [ok |-> FALSE, alerts |-> al]
    ELSE LET found == {t \in ths :
                          /\ t.active
                          /\ t.survey_id \in evalSurveys[p.evaluation_id]}
         IN _check_all_group_alerts(IndividualLoop(al, ById(found), p), ths, p)

\* ------------------------------------------------------------------------
\* The completion hook (survey.user_input)
\* ------------------------------------------------------------------------
MaxInputs == 2

\* the text_box / char_box questions of a survey: survey 2 has one
text_questions(sv) == IF sv = 2 THEN {1} ELSE {}

\* ------------------------------------------------------------------------
\* Scoring strategies (survey_config.py, survey_scoring_strategies.py)
\* ------------------------------------------------------------------------
\* scores are exact fractions [num, den] in lowest terms
RECURSIVE GCD(_, _)
GCD(a, b) == IF b = 0 THEN a ELSE GCD(b, a % b)

Rat(n, d) == [num |-> n \div GCD(n, d), den |-> d \div GCD(n, d)]

RatAdd(x, y) == Rat(x.num * y.den + y.num * x.den, x.den * y.den)

RatDiv(x, k) == Rat(x.num, x.den * k)

RECURSIVE RatSum(_)
RatSum(xs) == IF xs = <<>> THEN Rat(0, 1) ELSE RatAdd(Head(xs), RatSum(Tail(xs)))

\* 'questions': 'all_matrix'
AllMatrix == -1

\* a subscale of a configuration; combine is empty for a base subscale
Subscale(name, questions, items, combine) ==
    [name |-> name, questions |-> questions, items |-> items, combine |-> combine]

\* the three subscales of BULLYING_VA
BullyingSubscales ==
    {Subscale("victimization_score", 0, 7, <<>>),
     Subscale("aggression_score", 1, 7, <<>>),
     Subscale("bullying_score", AllMatrix, 0,
              <<"victimization_score", "aggression_score">>)}

\* the orders the dictionary of the subscales of BULLYING_VA can be written in
SubscaleOrders ==
    {o \in [1..3 -> BullyingSubscales] : \A i, j \in 1..3 : o[i] = o[j] => i = j}

\* SURVEY_SCORING_CONFIGS
WHO5Config ==
    [max_sequence |-> 5,
     subscales |-> <<Subscale("who5_score", AllMatrix, 5, <<>>)>>]

BullyingConfig(order) == [max_sequence |-> 4, subscales |-> order]

\* the answer lines of the matrix questions of a response that have a
\* suggested answer: per question, the ordinal (sequence) chosen in each row,
\* 0 for a row without a line
answered(rows) == SelectSeq(rows, LAMBDA a : a # 0)

RECURSIVE lines_of(_)
lines_of(questions) ==
    IF questions = <<>> THEN <<>>
    ELSE answered(Head(questions)) \o lines_of(Tail(questions))

\* total_score and item_count of the lines, then the test on the count: the
\* metric of the subscale, or nothing
subscale_metric(questions, config, subscale) ==
    LET lines == lines_of(questions)
        values == [i \in DOMAIN lines |-> Rat(lines[i] * 100, config.max_sequence)]
        item_count == Len(lines)
    IN IF item_count = subscale.items
       THEN <<[metric_name |-> subscale.name,
               value_float |-> RatDiv(RatSum(values), item_count),
               value_text |-> ""]>>
       ELSE <<>>

RECURSIVE NormalizedLoop(_, _, _)
\* the loop of _calculate_normalized_scores over the subscales
NormalizedLoop(subscales, config, u) ==
    IF subscales = <<>> THEN <<>>
    ELSE LET questions == IF Head(subscales).questions = AllMatrix
                          THEN u.lines ELSE <<>>
         IN subscale_metric(questions, config, Head(subscales))
            \o NormalizedLoop(Tail(subscales), config, u)

\* Who5Scoring.calculate
Who5Scoring_calculate(config, u) == NormalizedLoop(config.subscales, config, u)

\* the score kept in the dictionary scores for a name, if any
scores(metrics, name) ==
    SelectSeq(metrics, LAMBDA m : m.metric_name = name)

RECURSIVE combined_scores(_, _)
\* the scores of the subscales a combined subscale names that are in scores
combined_scores(metrics, combine) ==
    IF combine = <<>> THEN <<>>
    ELSE LET found == scores(metrics, Head(combine))
         IN (IF found = <<>> THEN <<>> ELSE <<found[1].value_float>>)
            \o combined_scores(metrics, Tail(combine))

RECURSIVE BullyingLoop(_, _, _, _)
\* the loop of BullyingVAScoring.calculate over the sorted subscales
BullyingLoop(subscales, config, u, metrics) ==
    IF subscales = <<>> THEN metrics
    ELSE LET subscale == Head(subscales)
             available == combined_scores(metrics, subscale.combine)
             idx == subscale.questions
             questions == IF idx < Len(u.lines) THEN <<u.lines[idx + 1]>> ELSE <<>>
         IN BullyingLoop(
                Tail(subscales), config, u,
                IF subscale.combine # <<>>
                THEN IF available # <<>>
                     THEN Append(metrics,
                                 [metric_name |-> subscale.name,
                                  value_float |-> RatDiv(RatSum(available),
                                                         Len(available)),
                                  value_text |-> ""])
                     ELSE metrics
                ELSE metrics \o subscale_metric(questions, config, subscale))

\* BullyingVAScoring.calculate: the base subscales first, then the combined
BullyingVAScoring_calculate(config, u) ==
    BullyingLoop(SelectSeq(config.subscales, LAMBDA s : s.combine = <<>>)
                     \o SelectSeq(config.subscales, LAMBDA s : s.combine # <<>>),
                 config, u, <<>>)

\* survey.is_adhoc: survey 2 is one of the centre's own
is_adhoc(sv) == sv = 2

\* SCORING_STRATEGIES.get(strategy_key) for the surveys of the model
strategy_key(sv) == IF is_adhoc(sv) THEN "ADHOC" ELSE survey_code[sv]

\* BaseSurveyScoring.__init__(self, survey, config): the call is accepted
\* with two arguments
scoring_class_accepts(args) == Len(args) = 2

\* survey.calculate_scores: the strategy is built as scoring_class(self), the
\* constructor wants (survey, config), the TypeError is caught and the
\* method returns []
calculate_scores(sv, u) ==
    IF strategy_key(sv) = "" THEN <<>>
    ELSE IF ~scoring_class_accepts(<<sv>>) THEN <<>>
    ELSE IF strategy_key(sv) = "WHO5" THEN Who5Scoring_calculate(WHO5Config, u)
    ELSE <<>>

\* the done response _calculate_scores reads for a survey (search, limit=1)
ScoredInput(ins, p, sv) ==
    LET found == {u \in ins :
                     /\ u.partner_id = p.student_id
                     /\ u.survey_id = sv
                     /\ u.state = "done"
                     /\ u.create_date >= dateStart[p.evaluation_id]}
    IN IF found = {} THEN {}
       ELSE {CHOOSE u \in found : \A v \in found : v.id <= u.id}

\* the metric_value rows created from one response
MetricRows(p, sv, u) ==
    {[student_id |-> p.student_id,
      evaluation_id |-> p.evaluation_id,
      survey_id |-> sv,
      metric_name |-> calculate_scores(sv, u)[i].metric_name,
      value_float |-> calculate_scores(sv, u)[i].value_float,
      value_text |-> calculate_scores(sv, u)[i].value_text,
      timestamp |-> now]
        : i \in DOMAIN calculate_scores(sv, u)}

\* Participation._calculate_scores: one metric_value row per metric returned
_calculate_scores(mv, ins, p) ==
    mv \cup UNION {UNION {MetricRows(p, sv, u) : u \in ScoredInput(ins, p, sv)}
                      : sv \in evalSurveys[p.evaluation_id]}

\* SurveyUserInput._save_qualitative_responses
_save_qualitative_responses(qs, ps, u) ==
    LET evaluation == {e \in Evaluations :
                          /\ evalState[e] \in {"scheduled", "active"}
                          /\ u.survey_id \in evalSurveys[e]
                          /\ \A f \in Evaluations :
                                evalState[f] \in {"scheduled", "active"}
                                /\ u.survey_id \in evalSurveys[f]
                                => dateStart[f] <= dateStart[e]}
        participation == {p \in ps : p.evaluation_id \in evaluation
                                     /\ p.student_id = u.partner_id}
    IN IF \/ text_questions(u.survey_id) = {}
          \/ evaluation = {}
          \/ participation = {}
          \/ studentGroup[u.partner_id] = NoGroup
       THEN qs
       ELSE qs \cup {[student_id |-> u.partner_id,
                      academic_group_id |-> studentGroup[u.partner_id],
                      evaluation_id |-> CHOOSE e \in evaluation : TRUE,
                      survey_id |-> u.survey_id,
                      question_id |-> q,
                      user_input_id |-> u.id]
                        : q \in {x \in text_questions(u.survey_id) :
                                    /\ u.answered_text
                                    /\ ~ \E r \in qs : r.user_input_id = u.id
                                                       /\ r.question_id = x}}

\* search_count of the partner's done responses to the surveys; since is the
\* create_date filter (NoTime: no filter)
completed_surveys(ins, s, svs, since) ==
    Cardinality({u \in ins : /\ u.partner_id = s
                             /\ u.survey_id \in svs
                             /\ u.state = "done"
                             /\ u.create_date >= since})

\* survey.user_input.create, by the survey pages or by the portal
user_input_create(s, sv, txt) ==
    /\ Cardinality(inputs) < MaxInputs
    /\ inputs' = inputs \cup {[id |-> Cardinality(inputs) + 1,
                               partner_id |-> s,
                               survey_id |-> sv,
                               answered_text |-> txt,
                               state |-> "in_progress",
                               create_date |-> now]}
    /\ last' = Op("user_input_create", 0, <<>>, FALSE)
    /\ UNCHANGED <<now, evalState, evalSurveys, evalGroups, dateStart, dateEnd,
                   studentGroup, parts, alertVars, dashboardVars>>

RECURSIVE MarkDoneLoop(_, _, _, _)
\* the loop of _mark_done over the evaluations found; st carries the
\* participation, metric_value and alert rows and the participation completed
MarkDoneLoop(st, es, ins, u) ==
    IF es = <<>> THEN st
    ELSE LET e == Head(es)
             found == {p \in st.parts : /\ p.evaluation_id = e
                                        /\ p.student_id = u.partner_id
                                        /\ p.state = "pending"}
         IN IF found = {} THEN MarkDoneLoop(st, Tail(es), ins, u)
            ELSE LET participation == CHOOSE p \in found : TRUE
                     mv1 == _calculate_scores(st.metric_values, ins, participation)
                     chk == check_alerts_for_participation(st.alerts, thresholds,
                                                           participation)
                     all_surveys == evalSurveys[e]
                     complete == completed_surveys(ins, u.partner_id, all_surveys,
                                                   dateStart[e])
                                    = Cardinality(all_surveys)
                     \* action_complete scores again before it writes
                     mv2 == IF complete
                            THEN _calculate_scores(mv1, ins, participation)
                            ELSE mv1
                 IN MarkDoneLoop(
                        [parts |-> IF complete
                                   THEN (st.parts \ {participation})
                                        \cup {CompleteOne(participation, now)}
                                   ELSE st.parts,
                         metric_values |-> mv2,
                         alerts |-> chk.alerts,
                         completed |-> IF complete
                                       THEN participation.evaluation_token
                                       ELSE st.completed],
                        Tail(es), ins, u)

\* SurveyUserInput._mark_done on one response: the host marks it done, then
\* the override runs (every survey of the model is an AulaMetrics survey and
\* every response has its partner)
_mark_done(u) ==
    LET done == [u EXCEPT !.state = "done"]
        ins == (inputs \ {u}) \cup {done}
        evaluations == {e \in Evaluations :
                           /\ evalState[e] \in {"scheduled", "active"}
                           /\ u.survey_id \in evalSurveys[e]}
        st == MarkDoneLoop([parts |-> parts, metric_values |-> metric_values,
                            alerts |-> alerts, completed |-> <<>>],
                           SortedSeq(evaluations), ins, done)
    IN /\ u \in inputs
       /\ inputs' = ins
       /\ qualitative' = _save_qualitative_responses(qualitative, parts, done)
       /\ parts' = st.parts
       /\ metric_values' = st.metric_values
       /\ alerts' = st.alerts
       /\ last' = Op("_mark_done", 0, st.completed, FALSE)
       /\ UNCHANGED <<now, evalState, evalSurveys, evalGroups, dateStart, dateEnd,
                      studentGroup, thresholds, keywords, user_groups, tutor_id, response>>

RECURSIVE WriteLoop(_, _, _, _)
\* the loop of the write override over the partner's pending participations
WriteLoop(st, ps, ins, u) ==
    IF ps = <<>> THEN st
    ELSE LET participation == Head(ps)
             all_surveys == evalSurveys[participation.evaluation_id]
             complete == completed_surveys(ins, u.partner_id, all_surveys, NoTime)
                            >= Cardinality(all_surveys)
         IN WriteLoop(
                IF complete
                THEN [parts |-> (st.parts \ {participation})
                                \cup {CompleteOne(participation, now)},
                      metric_values |-> _calculate_scores(st.metric_values, ins,
                                                          participation),
                      completed |-> participation.evaluation_token]
                ELSE st,
                Tail(ps), ins, u)

\* the participations in the order of their evaluation
PendingOf(ps, s) ==
    LET pending == {p \in ps : p.student_id = s /\ p.state = "pending"}
    IN [i \in 1..Len(SortedSeq({p.evaluation_id : p \in pending})) |->
           CHOOSE p \in pending :
               p.evaluation_id = SortedSeq({q.evaluation_id : q \in pending})[i]]

\* SurveyUserInputExtension.write({'state': 'done'}) on one response
write(u) ==
    LET done == [u EXCEPT !.state = "done"]
        ins == (inputs \ {u}) \cup {done}
        st == WriteLoop([parts |-> parts, metric_values |-> metric_values,
                         completed |-> <<>>],
                        PendingOf(parts, u.partner_id), ins, done)
    IN /\ u \in inputs
       /\ inputs' = ins
       /\ parts' = st.parts
       /\ metric_values' = st.metric_values
       /\ last' = Op("write", 0, st.completed, FALSE)
       /\ UNCHANGED <<now, evalState, evalSurveys, evalGroups, dateStart, dateEnd,
                      studentGroup, alertVars, user_groups, tutor_id, qualitative,
                      response>>

\* ------------------------------------------------------------------------
\* Specification of the completion hook
\* ------------------------------------------------------------------------
\* a threshold as the form creates it for the official survey: value above 40
DefaultThreshold ==
    [id |-> 1, score_field |-> _get_score_field_options(1), threshold_value |-> 40,
     operator |-> ">", active |-> TRUE, group_threshold_percentage |-> 25]

\* an evaluation of two surveys that has been scheduled and then activated
\* or cancelled: every student of its group has a pending participation, and
\* no response has been started
InitHook ==
    /\ now = 0
    /\ evalState \in [Evaluations -> {"active", "cancelled"}]
    /\ evalSurveys = [e \in Evaluations |-> {1, 2}]
    /\ evalGroups = [e \in Evaluations |-> {1}]
    /\ dateStart = [e \in Evaluations |-> 1]
    /\ dateEnd = [e \in Evaluations |-> 2]
    /\ studentGroup = [s \in Students |-> 1]
    /\ parts = _create_participations({}, 1).parts
    /\ last = NoOp
    /\ inputs = {}
    /\ thresholds = {DefaultThreshold}
    /\ keywords = {}
    /\ alerts = {}
    /\ DashboardIdle

NextHook ==
    \/ \E s \in Students, sv \in Surveys, txt \in BOOLEAN :
          /\ txt => text_questions(sv) # {}
          /\ user_input_create(s, sv, txt)
    \/ \E u \in inputs : _mark_done(u)
    \/ \E u \in inputs : write(u)
    \/ Tick

SpecHook == InitHook /\ [][NextHook]_vars

\* the student has a done response, created on or after the evaluation's
\* start, to every survey of the participation's evaluation
EverySurveyDone(p) ==
    \A sv \in evalSurveys[p.evaluation_id] :
        \E u \in inputs : /\ u.partner_id = p.student_id
                          /\ u.survey_id = sv
                          /\ u.state = "done"
                          /\ u.create_date >= dateStart[p.evaluation_id]

\* C3: a participation that the completion hook (_mark_done) has just
\* completed belongs to a student who has, for every survey assigned to the
\* evaluation, a done response created on or after the evaluation's start;
\* two done responses to one survey and none to another do not complete it.
C3_CompletedHasEverySurveyDone ==
    \A p \in parts :
        last.op = "_mark_done" /\ last.p = p.evaluation_token /\ p.state = "completed"
            => EverySurveyDone(p)

\* ------------------------------------------------------------------------
\* Specification of the alert engine
\* ------------------------------------------------------------------------
MinResolutionLength == 10

\* Participation.check_alerts
check_alerts(p) ==
    LET r == check_alerts_for_participation(alerts, thresholds, p)
    IN /\ p \in parts
       /\ alerts' = r.alerts
       /\ last' = Op("check_alerts", p.evaluation_id, p.evaluation_token, ~r.ok)
       /\ UNCHANGED <<now, evalState, evalSurveys, evalGroups, dateStart, dateEnd,
                      studentGroup, parts, hookVars, thresholds, keywords, dashboardVars>>

DismissOne_Reactivate(a) == [a EXCEPT !.status = "active"]

\* alert.status = 'dismissed'
DismissOne(a) == [a EXCEPT !.status = "dismissed"]

\* Alert.action_dismiss
action_dismiss(a) ==
    /\ a \in alerts
    /\ alerts' = (alerts \ {a}) \cup {DismissOne(a)}
    /\ last' = Op("action_dismiss", 0, <<a.id>>, FALSE)
    /\ UNCHANGED <<now, evalState, evalSurveys, evalGroups, dateStart, dateEnd,
                   studentGroup, parts, hookVars, thresholds, keywords, dashboardVars>>

\* a text typed in the wizard: <<the length of the text once stripped, the
\* number of blanks around it>>
len_strip(note) == note[1]
len_text(note) == note[1] + note[2]

\* the check on the length of the text as typed
_check_resolution_action_NoStrip(note) == len_text(note) >= MinResolutionLength

\* ResolveAlertWizard._check_resolution_action: the text is not empty and
\* has 10 characters or more once stripped
_check_resolution_action(note) ==
    len_text(note) # 0 /\ len_strip(note) >= MinResolutionLength

\* the Resolve wizard, opened by action_resolve on an alert, filled with a
\* text and confirmed (action_confirm_resolve): the constraint runs when the
\* wizard is saved, before the button; the alert keeps the text as typed
action_confirm_resolve(a, note) ==
    /\ a \in alerts
    /\ IF _check_resolution_action(note)
       THEN /\ alerts' = (alerts \ {a})
                            \cup {[a EXCEPT !.status = "resolved",
                                            !.resolution_action = len_text(note),
                                            !.resolution_date = now]}
            /\ last' = Op("action_confirm_resolve", 0, <<a.id>> \o note, FALSE)
       ELSE /\ UNCHANGED alerts
            /\ last' = Op("action_confirm_resolve", 0, <<a.id>> \o note, TRUE)
    /\ UNCHANGED <<now, evalState, evalSurveys, evalGroups, dateStart, dateEnd,
                   studentGroup, parts, hookVars, thresholds, keywords, dashboardVars>>

\* a and b are two alerts on the same subject: the same threshold and
\* participation (individual) or the same threshold and group (group)
SameSubject(a, b) ==
    /\ a.id # b.id
    /\ a.threshold_id = b.threshold_id
    /\ a.alert_level = b.alert_level
    /\ IF a.alert_level = "individual"
       THEN a.participation_id = b.participation_id
       ELSE a.academic_group_id = b.academic_group_id

AtMostOneActive(al) ==
    \A a, b \in al :
        SameSubject(a, b) => ~(a.status = "active" /\ b.status = "active")

\* the alert rows there can be under an id: an individual alert on one of the
\* participations or a group alert on the group, in any status
AlertRows(i, ps) ==
    {[id |-> i, threshold_id |-> 1,
      participation_id |-> IF lv = "individual" THEN p.evaluation_token
                           ELSE NoParticipation,
      student_id |-> IF lv = "individual" THEN p.student_id ELSE NoStudent,
      academic_group_id |-> studentGroup[p.student_id],
      score_value |-> 55,
      alert_level |-> lv,
      status |-> st,
      resolution_action |-> IF st = "resolved" THEN MinResolutionLength ELSE 0,
      resolution_date |-> IF st = "resolved" THEN 0 ELSE NoTime]
        : lv \in AlertLevels, st \in AlertStatuses, p \in ps}

\* the thresholds the form can create for one of the surveys
ThresholdChoices ==
    {[id |-> 1, score_field |-> _get_score_field_options(sv), threshold_value |-> 40,
      operator |-> op, active |-> ac, group_threshold_percentage |-> pc]
        : sv \in Surveys, op \in {">", "<"}, ac \in BOOLEAN, pc \in {0, 25}}

\* the metric_value row of student 1 for survey 1: a score of 30 or of 55
MetricChoices ==
    {{[student_id |-> 1, evaluation_id |-> 1, survey_id |-> 1,
       metric_name |-> "who5_score", value_float |-> v, value_text |-> "",
       timestamp |-> 0]}
        : v \in {30, 55}}

\* an active evaluation of survey 1 for group 1, a participation for each of
\* its students, one threshold, and up to two alerts recorded earlier, no two
\* active ones on the same subject
InitAlert ==
    /\ now = 0
    /\ evalState = [e \in Evaluations |-> "active"]
    /\ evalSurveys = [e \in Evaluations |-> {1}]
    /\ evalGroups = [e \in Evaluations |-> {1}]
    /\ dateStart = [e \in Evaluations |-> 0]
    /\ dateEnd = [e \in Evaluations |-> MaxTime + 1]
    /\ studentGroup \in [Students -> {1}] \cup {[s \in Students |-> s]}
    /\ parts = _create_participations({}, 1).parts
    /\ last = NoOp
    /\ HookIdle
    /\ thresholds \in {{t} : t \in ThresholdChoices}
    /\ keywords = {}
    /\ alerts \in {al \in {{}} \cup {{a} : a \in AlertRows(1, parts)}
                             \cup {{a, b} : a \in AlertRows(1, parts),
                                           b \in AlertRows(2, parts)}
                      : AtMostOneActive(al)}
    /\ user_groups = {}
    /\ tutor_id = [g \in Groups |-> NoUser]
    /\ metric_values \in MetricChoices
    /\ qualitative = {}
    /\ response = NoResponse

\* the texts typed in the wizard: one character short, one character short
\* with a blank after it, and long enough
ResolutionNotes ==
    {<<MinResolutionLength - 1, 0>>, <<MinResolutionLength - 1, 1>>,
     <<MinResolutionLength, 0>>}

NextAlert ==
    \/ \E p \in parts : check_alerts(p)
    \/ \E a \in alerts : action_dismiss(a)
    \/ \E a \in alerts, note \in ResolutionNotes : action_confirm_resolve(a, note)
    \/ Tick

SpecAlert == InitAlert /\ [][NextAlert]_vars

\* ------------------------------------------------------------------------
\* Properties of the alert engine
\* ------------------------------------------------------------------------
\* the surveys a threshold is about: those whose score field it names
ThresholdSurveys(t) == {sv \in Surveys : _get_score_field_options(sv) = t.score_field}

\* the threshold is active and about a survey of the participation's evaluation
Applicable(t, p) ==
    t.active /\ ThresholdSurveys(t) \cap evalSurveys[p.evaluation_id] # {}

\* the threshold's comparison holds for a score of the student in the evaluation
ComparisonHolds(t, p) ==
    \E m \in metric_values :
        /\ m.student_id = p.student_id
        /\ m.evaluation_id = p.evaluation_id
        /\ m.survey_id \in ThresholdSurveys(t)
        /\ is_alert(t, m.value_float)

IndividualAlerts(al, t, p) ==
    {a \in al : /\ a.alert_level = "individual"
                /\ a.threshold_id = t.id
                /\ a.participation_id = p.evaluation_token}

ActiveIndividualInGroup(al, t, g) ==
    {a \in al : /\ a.alert_level = "individual"
                /\ a.threshold_id = t.id
                /\ a.academic_group_id = g
                /\ a.status = "active"}

GroupAlerts(al, t, g) ==
    {a \in al : /\ a.alert_level = "group"
                /\ a.threshold_id = t.id
                /\ a.academic_group_id = g}

\* C7: when an active threshold is about a survey of the evaluation and its
\* comparison holds for the student's score (above 40 with a score of 55),
\* check_alerts on a participation without an alert for the threshold creates
\* exactly one active individual alert, and check_alerts on a participation
\* that has that one active alert creates none: two runs leave exactly one.
C7_CheckTwiceOneAlert ==
    [][\A p \in parts, t \in thresholds :
          /\ last'.op = "check_alerts"
          /\ last'.p = p.evaluation_token
          /\ Applicable(t, p)
          /\ ComparisonHolds(t, p)
          => /\ IndividualAlerts(alerts, t, p) = {}
                  => /\ Cardinality(IndividualAlerts(alerts', t, p)) = 1
                     /\ \A a \in IndividualAlerts(alerts', t, p) : a.status = "active"
             /\ \A a \in IndividualAlerts(alerts, t, p) :
                   (IndividualAlerts(alerts, t, p) = {a} /\ a.status = "active")
                       => IndividualAlerts(alerts', t, p) = {a}]_vars

C9_GroupAlertAtPercentage ==
    [][\A p \in parts, t \in thresholds :
          LET g == studentGroup[p.student_id]
              n == total_students(g)
              a == Cardinality(ActiveIndividualInGroup(alerts', t, g))
          IN /\ last'.op = "check_alerts"
             /\ last'.p = p.evaluation_token
             /\ Applicable(t, p)
             /\ t.group_threshold_percentage > 0
             /\ n > 0
             => /\ a * 100 >= t.group_threshold_percentage * n
                     => \E x \in GroupAlerts(alerts', t, g) : x.status = "active"
                /\ a * 100 < t.group_threshold_percentage * n
                     => GroupAlerts(alerts', t, g) \subseteq GroupAlerts(alerts, t, g)]_vars

\* ------------------------------------------------------------------------
\* The role-scoped dashboards
\* ------------------------------------------------------------------------
\* request.env.user, and the other staff user
User == 1
Users == {1, 2}

\* what a group_ids or evaluation_ids parameter is made of, comma-separated
Tokens == {"1", "2", "-1"}

\* str.isdigit and int
isdigit(tok) == tok \in {"1", "2"}
int(tok) == IF tok = "1" THEN 1 ELSE 2

\* DashboardChartsController._detect_user_role
_detect_user_role ==
    LET role == IF "admin" \in user_groups THEN "admin"
                ELSE IF "counselor" \in user_groups THEN "counselor"
                ELSE IF "management" \in user_groups THEN "management"
                ELSE "tutor"
    IN [role |-> role,
        allowed_group_ids |-> IF role = "tutor"
                              THEN {g \in Groups : tutor_id[g] = User}
                              ELSE {},
        anonymize_students |-> role = "management"]

\* _parse_hub_filters: the ids that are digits, as integers; the other
\* parameters as given (NoTime: no date)
_parse_hub_filters(kwargs) ==
    [metric_names |-> kwargs.metric_names,
     date_from |-> kwargs.date_from,
     date_to |-> kwargs.date_to,
     group_ids |-> {int(g) : g \in {x \in kwargs.group_ids : isdigit(x)}},
     evaluation_ids |-> {int(e) : e \in {x \in kwargs.evaluation_ids : isdigit(x)}}]

_apply_role_restrictions_NoIntersection(filters, role_info) ==
    IF role_info.role = "tutor"
    THEN IF role_info.allowed_group_ids # {}
         THEN IF filters.group_ids # {}
              THEN filters
              ELSE [filters EXCEPT !.group_ids = role_info.allowed_group_ids]
         ELSE [filters EXCEPT !.group_ids = {-1}]
    ELSE filters

_apply_role_restrictions(filters, role_info) ==
    IF role_info.role = "tutor"
    THEN IF role_info.allowed_group_ids # {}
         THEN IF filters.group_ids # {}
              THEN [filters EXCEPT !.group_ids = @ \cap role_info.allowed_group_ids]
              ELSE [filters EXCEPT !.group_ids = role_info.allowed_group_ids]
         ELSE [filters EXCEPT !.group_ids = {-1}]
    ELSE filters

\* metric_value.academic_group_id, stored from student_id.academic_group_id
mv_academic_group_id(m) == studentGroup[m.student_id]

\* the evaluation and date leaves both Hub queries put in their domain
HubLeaves(m, filters) ==
    /\ filters.evaluation_ids # {} => m.evaluation_id \in filters.evaluation_ids
    /\ filters.date_from # NoTime => m.timestamp >= filters.date_from
    /\ filters.date_to # NoTime => m.timestamp <= filters.date_to

\* DashboardCharts._get_available_metrics: the rows its domain matches
_get_available_metrics(filters, role_info) ==
    IF role_info.role = "tutor" /\ role_info.allowed_group_ids = {}
    THEN {}
    ELSE {m \in metric_values :
             /\ role_info.role = "tutor"
                   => mv_academic_group_id(m) \in role_info.allowed_group_ids
             /\ HubLeaves(m, filters)}

\* DashboardCharts._query_metric_values
_query_metric_values(filters, role_info) ==
    IF /\ filters.group_ids = {}
       /\ role_info.role = "tutor"
       /\ role_info.allowed_group_ids = {}
    THEN {}
    ELSE {m \in metric_values :
             /\ filters.metric_names # {} => m.metric_name \in filters.metric_names
             /\ IF filters.group_ids # {}
                THEN mv_academic_group_id(m) \in filters.group_ids
                ELSE role_info.role = "tutor"
                        => mv_academic_group_id(m) \in role_info.allowed_group_ids
             /\ HubLeaves(m, filters)}

\* res.partner.name and str(student.id)
partner_name(s) == IF s = 1 THEN "Ana" ELSE "Luis"
str(s) == IF s = 1 THEN "1" ELSE "2"

\* the type _prepare_dataframe detects: value_float if truthy, else value_text
\* (no row of the model has a value_json)
metric_type(m) ==
    IF m.value_float # 0 THEN "numeric"
    ELSE IF m.value_text # "" THEN "text"
    ELSE "none"

\* DashboardCharts._prepare_dataframe: one row per metric value that has a
\* value (index is the position of the row in the frame)
_prepare_dataframe(mvs, role_info) ==
    {[index |-> m,
      metric_name |-> m.metric_name,
      metric_type |-> metric_type(m),
      value_text |-> m.value_text,
      student_id |-> IF role_info.anonymize_students THEN "***" ELSE str(m.student_id),
      student_name |-> IF role_info.anonymize_students THEN "Anónimo"
                       ELSE partner_name(m.student_id),
      group_id |-> mv_academic_group_id(m)]
        : m \in {x \in mvs : metric_type(x) # "none"}}

\* DashboardCharts._chart_text_metric: the table has one line per row of a
\* text metric, whatever the role
_chart_text_metric(df) ==
    {[index |-> row.index, student_name |-> row.student_name, text |-> row.value_text]
        : row \in {x \in df : x.metric_type = "text"}}

\* /aulametrics/dashboard: dashboard_view and DashboardCharts.generate_dashboard
dashboard_view(kwargs) ==
    LET role_info == _detect_user_role
        parsed == _parse_hub_filters(kwargs)
        filters == _apply_role_restrictions(parsed, role_info)
        available_metrics == _get_available_metrics(filters, role_info)
        selected == IF available_metrics = {} THEN {}
                    ELSE _query_metric_values(filters, role_info)
        df == _prepare_dataframe(selected, role_info)
    IN /\ response' = [route |-> "dashboard_view",
                       role |-> role_info.role,
                       status |-> 200,
                       requested |-> parsed.group_ids,
                       group_ids |-> filters.group_ids,
                       metric_rows |-> IF available_metrics = {} THEN {}
                                       ELSE available_metrics
                                            \cup _query_metric_values(filters, role_info),
                       students |-> {},
                       qualitative_rows |-> {},
                       frame |-> df,
                       student_rows |-> _chart_text_metric(df)]
       /\ UNCHANGED <<campaignVars, hookVars, alertVars, user_groups, tutor_id,
                      metric_values, qualitative>>

\* res.partner.is_student
is_student(s) == studentGroup[s] # NoGroup

\* DashboardStudentProfile.generate_students_list: the students listed
generate_students_list(role_info) ==
    IF role_info.role = "tutor"
    THEN IF role_info.allowed_group_ids = {} THEN {}
         ELSE {s \in Students : is_student(s)
                                /\ studentGroup[s] \in role_info.allowed_group_ids}
    ELSE {s \in Students : is_student(s)}

\* /aulametrics/students
students_list_view ==
    LET role_info == _detect_user_role
    IN /\ response' = [route |-> "students_list_view",
                       role |-> role_info.role,
                       status |-> IF role_info.role = "management" THEN 403 ELSE 200,
                       requested |-> {},
                       group_ids |-> {},
                       metric_rows |-> {},
                       students |-> IF role_info.role = "management" THEN {}
                                    ELSE generate_students_list(role_info),
                       qualitative_rows |-> {},
                       frame |-> {},
                       student_rows |-> {}]
       /\ UNCHANGED <<campaignVars, hookVars, alertVars, user_groups, tutor_id,
                      metric_values, qualitative>>

\* DashboardStudentProfile._can_access_student
_can_access_student(s, role_info) ==
    IF role_info.role \in {"admin", "counselor"} THEN TRUE
    ELSE IF role_info.role = "management" THEN FALSE
    ELSE IF role_info.role = "tutor"
         THEN studentGroup[s] # NoGroup
              /\ studentGroup[s] \in role_info.allowed_group_ids
         ELSE FALSE

\* /aulametrics/student/<student_id>: the profile is generated for a student
\* the role can access
student_profile_view(student_id) ==
    LET role_info == _detect_user_role
        found == student_id \in Students /\ is_student(student_id)
        generated == found /\ _can_access_student(student_id, role_info)
    IN /\ response' = [route |-> "student_profile_view",
                       role |-> role_info.role,
                       status |-> IF found THEN 200 ELSE 404,
                       requested |-> {},
                       group_ids |-> {},
                       metric_rows |-> IF generated
                                       THEN {m \in metric_values :
                                                m.student_id = student_id}
                                       ELSE {},
                       students |-> IF generated THEN {student_id} ELSE {},
                       qualitative_rows |-> {},
                       frame |-> {},
                       student_rows |-> {}]
       /\ UNCHANGED <<campaignVars, hookVars, alertVars, user_groups, tutor_id,
                      metric_values, qualitative>>

\* _get_counselor_data: the table has one identified line per response
_get_counselor_data(responses) ==
    {[index |-> r, student_name |-> partner_name(r.student_id), text |-> "response"]
        : r \in responses}

\* _get_tutor_data: one line per response, without the student
_get_tutor_data(responses) ==
    {[index |-> r, student_name |-> "", text |-> "response"] : r \in responses}

\* _get_management_data: statistics by course only, no line per response
_get_management_data(responses) == {}

\* QualitativeDashboardController._detect_user_role
qualitative_detect_user_role ==
    IF "counselor" \in user_groups \/ "admin" \in user_groups THEN "counselor"
    ELSE IF "tutor" \in user_groups THEN "tutor"
    ELSE "management"

\* /aulametrics/qualitative/dashboard (NoGroup stands for a parameter not
\* given); the model never holds more rows than the limit of the search
qualitative_dashboard(evaluation_id, question_id) ==
    LET role == qualitative_detect_user_role
        tutor_groups == {g \in Groups : tutor_id[g] = User}
        responses == {r \in qualitative :
                         /\ evaluation_id # 0 => r.evaluation_id = evaluation_id
                         /\ question_id # 0 => r.question_id = question_id
                         /\ role = "tutor" => r.academic_group_id \in tutor_groups}
    IN /\ response' = [route |-> "qualitative_dashboard",
                       role |-> role,
                       status |-> 200,
                       requested |-> {},
                       group_ids |-> {},
                       metric_rows |-> {},
                       students |-> {},
                       qualitative_rows |-> responses,
                       frame |-> {},
                       student_rows |-> IF role = "counselor"
                                        THEN _get_counselor_data(responses)
                                        ELSE IF role = "tutor"
                                        THEN _get_tutor_data(responses)
                                        ELSE _get_management_data(responses)]
       /\ UNCHANGED <<campaignVars, hookVars, alertVars, user_groups, tutor_id,
                      metric_values, qualitative>>

\* ------------------------------------------------------------------------
\* Specification of the dashboards
\* ------------------------------------------------------------------------
\* the requests of the Hub
HubRequests ==
    {[metric_names |-> mn, date_from |-> d[1], date_to |-> d[2],
      group_ids |-> gs, evaluation_ids |-> es]
        : mn \in {{}, {"who5_score"}},
          d \in {<<NoTime, NoTime>>, <<2, NoTime>>, <<NoTime, 1>>},
          gs \in {g \in SUBSET Tokens : "-1" \in g => g = {"1", "-1"}},
          es \in {{}, {"1"}}}

\* the metric value of a student: the WHO-5 score, or the text answered to a
\* question of one of the centre's own surveys
MetricOf(s, text) ==
    IF text
    THEN [student_id |-> s, evaluation_id |-> 1, survey_id |-> 2,
          metric_name |-> "adhoc_q1", value_float |-> 0, value_text |-> "answer",
          timestamp |-> s]
    ELSE [student_id |-> s, evaluation_id |-> 1, survey_id |-> 1,
          metric_name |-> "who5_score", value_float |-> 55, value_text |-> "",
          timestamp |-> s]

\* the security groups a staff user is given
UserGroupChoices ==
    {{}, {"tutor"}, {"management"}, {"management", "tutor"}, {"counselor", "tutor"},
     {"admin"}}

\* students in any group or none, groups tutored by the user, by the other
\* user or by nobody, a user with one of the sets of security groups, a metric
\* value (a score or a text) and a qualitative response for each student
InitDashboard ==
    /\ now = 0
    /\ evalState = [e \in Evaluations |-> "closed"]
    /\ evalSurveys = [e \in Evaluations |-> {1, 2}]
    /\ evalGroups = [e \in Evaluations |-> Groups]
    /\ dateStart = [e \in Evaluations |-> 0]
    /\ dateEnd = [e \in Evaluations |-> 1]
    /\ studentGroup \in [Students -> Groups \cup {NoGroup}]
    /\ parts = {}
    /\ last = NoOp
    /\ HookIdle
    /\ AlertIdle
    /\ user_groups \in UserGroupChoices
    /\ tutor_id \in [Groups -> Users \cup {NoUser}]
    /\ metric_values \in {{MetricOf(s, text /\ s = 2) : s \in Students}
                            : text \in BOOLEAN}
    /\ qualitative = {[student_id |-> s, academic_group_id |-> s,
                       evaluation_id |-> 1, survey_id |-> 2, question_id |-> 1,
                       user_input_id |-> s] : s \in Students}
    /\ response = NoResponse

NextDashboard ==
    \/ \E kwargs \in HubRequests : dashboard_view(kwargs)
    \/ students_list_view
    \/ \E s \in Students \cup {3} : student_profile_view(s)
    \/ \E e \in {0, 1}, q \in {0, 1, 2} : qualitative_dashboard(e, q)

SpecDashboard == InitDashboard /\ [][NextDashboard]_vars

\* the groups the user tutors
TutoredGroups == {g \in Groups : tutor_id[g] = User}

C11_ManagementSeesOnlyAggregates ==
    (/\ response.role = "management"
     /\ response.route \in {"dashboard_view", "qualitative_dashboard"})
        => /\ \A row \in response.frame :
                  row.student_name = "Anónimo" /\ row.student_id = "***"
           /\ response.student_rows = {}

\* C12: a request of the role management for the list of students or for the
\* profile of a student is answered with status 403 and carries no data of
\* any student
C12_ManagementForbidden ==
    (/\ response.role = "management"
     /\ response.route \in {"students_list_view", "student_profile_view"})
        => /\ response.status = 403
           /\ response.students = {}
           /\ response.metric_rows = {}


\* ------------------------------------------------------------------------
\* Custom Survey Answer Portal (controllers/survey_portal.py)
\* ------------------------------------------------------------------------
\* a survey id no survey has
NoSurvey == 3

\* a token no participation has
UnknownToken == <<0, 0, 0>>

\* the search by token without the filter on the state
_get_participation_by_token_AnyState(token) ==
    {p \in parts : p.evaluation_token = token}

\* _get_participation_by_token: the participation of the token that is not
\* expired (search, limit=1; a token belongs to one row)
_get_participation_by_token(token) ==
    {p \in parts : p.evaluation_token = token /\ p.state # "expired"}

\* survey.exists() and survey in participation.evaluation_id.survey_ids
survey_available(p, survey_id) ==
    survey_id \in Surveys /\ survey_id \in evalSurveys[p.evaluation_id]

\* the search of _get_or_create_user_input and of _get_surveys_status
\* (limit=1, the latest response first)
portal_user_input(ins, p, sv) ==
    LET found == {u \in ins : /\ u.partner_id = p.student_id
                              /\ u.survey_id = sv
                              /\ u.create_date >= dateStart[p.evaluation_id]}
    IN IF found = {} THEN {}
       ELSE {CHOOSE u \in found : \A v \in found : v.id <= u.id}

\* _get_or_create_user_input: the response found, or a new one in progress
\* (no response of the model is in the state new)
_get_or_create_user_input(ins, p, sv) ==
    LET found == portal_user_input(ins, p, sv)
        created == [id |-> Cardinality(ins) + 1,
                    partner_id |-> p.student_id,
                    survey_id |-> sv,
                    answered_text |-> FALSE,
                    state |-> "in_progress",
                    create_date |-> now]
    IN IF found = {}
       THEN [inputs |-> ins \cup {created}, user_input |-> created, created |-> TRUE]
       ELSE [inputs |-> ins, user_input |-> CHOOSE u \in found : TRUE,
             created |-> FALSE]

\* _process_answers: the answer lines of the response are deleted and the
\* lines of the form are written (txt: the form answers the text question)
_process_answers(u, txt) == [u EXCEPT !.answered_text = txt]

\* the override of _mark_done run on the response done of the responses ins
mark_done_override(ins, done) ==
    LET evaluations == {e \in Evaluations :
                           /\ evalState[e] \in {"scheduled", "active"}
                           /\ done.survey_id \in evalSurveys[e]}
        st == MarkDoneLoop([parts |-> parts, metric_values |-> metric_values,
                            alerts |-> alerts, completed |-> <<>>],
                           SortedSeq(evaluations), ins, done)
    IN [parts |-> st.parts,
        metric_values |-> st.metric_values,
        alerts |-> st.alerts,
        qualitative |-> _save_qualitative_responses(qualitative, parts, done),
        completed |-> st.completed]

\* what a portal request is answered with: the page, and whether the
\* completion hook has run
PortalResponse(route, token, survey_id, page, hook) ==
    [route |-> route, token |-> token, survey_id |-> survey_id, page |-> page,
     hook |-> hook]

\* GET /evaluacion/<token>: the summary page
portal_evaluacion(token) ==
    LET participation == _get_participation_by_token(token)
        p == CHOOSE x \in participation : TRUE
        e == p.evaluation_id
        page == IF participation = {} THEN "portal_error"
                ELSE IF evalState[e] = "closed" \/ dateEnd[e] < now THEN "portal_error"
                ELSE IF evalState[e] = "draft" THEN "portal_error"
                ELSE "portal_evaluacion"
    IN /\ response' = PortalResponse("portal_evaluacion", token, 0, page, FALSE)
       /\ last' = Op("portal_evaluacion", 0, <<>>, page = "portal_error")
       /\ UNCHANGED <<now, evalState, evalSurveys, evalGroups, dateStart, dateEnd,
                      studentGroup, parts, inputs, thresholds, keywords, alerts, user_groups,
                      tutor_id, metric_values, qualitative>>

\* GET /evaluacion/<token>/encuesta/<survey_id>: the form of one survey
render_survey(token, survey_id) ==
    LET participation == _get_participation_by_token(token)
        p == CHOOSE x \in participation : TRUE
        valid == participation # {} /\ survey_available(p, survey_id)
        g == _get_or_create_user_input(inputs, p, survey_id)
        page == IF ~valid THEN "portal_error"
                ELSE IF g.user_input.state = "done" THEN "redirect"
                ELSE "portal_survey_form"
    IN /\ valid /\ g.created => Cardinality(inputs) < MaxInputs
       /\ inputs' = IF valid THEN g.inputs ELSE inputs
       /\ response' = PortalResponse("render_survey", token, survey_id, page, FALSE)
       /\ last' = Op("render_survey", 0, <<>>, page = "portal_error")
       /\ UNCHANGED <<now, evalState, evalSurveys, evalGroups, dateStart, dateEnd,
                      studentGroup, parts, thresholds, keywords, alerts, user_groups,
                      tutor_id, metric_values, qualitative>>

\* POST /evaluacion/<token>/encuesta/<survey_id>/submit: the answers are
\* written, the response is marked done and _mark_done runs (the write
\* override of survey_user_input_extension.py is not imported by
\* models/__init__.py: write is the host's)
submit_survey(token, survey_id, txt) ==
    LET participation == _get_participation_by_token(token)
        p == CHOOSE x \in participation : TRUE
        valid == participation # {} /\ survey_available(p, survey_id)
        g == _get_or_create_user_input(inputs, p, survey_id)
        accepted == valid /\ g.user_input.state # "done"
        done == [_process_answers(g.user_input, txt) EXCEPT !.state = "done"]
        ins == (g.inputs \ {g.user_input}) \cup {done}
        st == mark_done_override(ins, done)
        page == IF ~valid THEN "portal_error" ELSE "redirect"
    IN /\ valid /\ g.created => Cardinality(inputs) < MaxInputs
       /\ inputs' = IF accepted THEN ins ELSE IF valid THEN g.inputs ELSE inputs
       /\ parts' = IF accepted THEN st.parts ELSE parts
       /\ metric_values' = IF accepted THEN st.metric_values ELSE metric_values
       /\ alerts' = IF accepted THEN st.alerts ELSE alerts
       /\ qualitative' = IF accepted THEN st.qualitative ELSE qualitative
       /\ response' = PortalResponse("submit_survey", token, survey_id, page, accepted)
       /\ last' = Op("submit_survey", 0, IF accepted THEN st.completed ELSE <<>>,
                     page = "portal_error")
       /\ UNCHANGED <<now, evalState, evalSurveys, evalGroups, dateStart, dateEnd,
                      studentGroup, thresholds, keywords, user_groups, tutor_id>>

\* ------------------------------------------------------------------------
\* Specification of the portal
\* ------------------------------------------------------------------------
\* the tokens and the survey ids a request carries
PortalTokens == {p.evaluation_token : p \in parts} \cup {UnknownToken}
PortalSurveys == Surveys \cup {NoSurvey}

\* the requests for one survey: any survey id with the token of a
\* participation, survey 1 with the unknown token
PortalRequests ==
    {r \in PortalTokens \X PortalSurveys : r[1] = UnknownToken => r[2] = 1}

\* a form that answers every question of the survey
FullForm(sv) == sv \in Surveys /\ text_questions(sv) # {}

\* an evaluation of one or two surveys for group 1 that has been scheduled
\* at time 0, to start at once or later: student 1, the student of the group,
\* has a pending participation and no response has been started
InitPortal ==
    /\ now = 0
    /\ evalState = [e \in Evaluations |-> "scheduled"]
    /\ evalSurveys \in [Evaluations -> {{1}, {1, 2}}]
    /\ evalGroups = [e \in Evaluations |-> {1}]
    /\ dateStart \in [Evaluations -> {0, 1}]
    /\ dateEnd = [e \in Evaluations |-> 2]
    /\ studentGroup = [s \in Students |-> s]
    /\ parts = _create_participations({}, 1).parts
    /\ last = NoOp
    /\ inputs = {}
    /\ thresholds = {DefaultThreshold}
    /\ keywords = {}
    /\ alerts = {}
    /\ DashboardIdle

NextPortal ==
    \/ \E token \in PortalTokens : portal_evaluacion(token)
    \/ \E r \in PortalRequests : render_survey(r[1], r[2])
    \/ \E r \in PortalRequests : submit_survey(r[1], r[2], FullForm(r[2]))
    \/ \E e \in Evaluations : action_activate(e)
    \/ \E e \in Evaluations : action_close(e)
    \/ \E e \in Evaluations : action_reset_to_draft(e)
    \/ Tick

SpecPortal == InitPortal /\ [][NextPortal]_vars


\* the step is a request to one of the routes of the portal
PortalStep(routes) == last'.op \in routes /\ response'.route = last'.op

\* no participation that is not expired has the token
TokenRefused(token) ==
    \A p \in parts : p.evaluation_token = token => p.state = "expired"

\* the survey is not one of the surveys of the token's evaluation
SurveyUnassigned(token, survey_id) ==
    \E p \in parts : /\ p.evaluation_token = token
                     /\ survey_id \notin evalSurveys[p.evaluation_id]

\* no response, answer line, participation or stored result changes
NothingWritten ==
    /\ inputs' = inputs
    /\ parts' = parts
    /\ qualitative' = qualitative
    /\ metric_values' = metric_values
    /\ alerts' = alerts

\* C13: a request to the summary, to the form of one survey or to the submit
\* of one survey with an unknown token, with the token of an expired
\* participation or (form, submit) for a survey that is not assigned to the
\* evaluation is answered with the error page only: no response record is
\* created or changed and no answer line is written or deleted
C13_InvalidRequestOnlyErrorPage ==
    [][(/\ PortalStep({"portal_evaluacion", "render_survey", "submit_survey"})
        /\ \/ TokenRefused(response'.token)
           \/ /\ response'.route # "portal_evaluacion"
              /\ SurveyUnassigned(response'.token, response'.survey_id))
          => /\ response'.page = "portal_error"
             /\ ~response'.hook
             /\ NothingWritten]_vars

\* a submit with the token of an expired participation has been answered
\* with the error page while the student's response to the survey was in
\* progress
C13_Witness ==
    /\ last.op = "submit_survey"
    /\ response.page = "portal_error"
    /\ \E p \in parts : /\ p.evaluation_token = response.token
                        /\ p.state = "expired"
                        /\ \E u \in inputs : /\ u.partner_id = p.student_id
                                             /\ u.survey_id = response.survey_id
                                             /\ u.state = "in_progress"

\* C14: the portal accepts no new input for an evaluation that is closed or
\* draft, or for a survey the student has a done response to: the form and
\* the submit of one survey create no response record, write or delete no
\* answer line and do not run the completion hook
C14_NoInputWhenClosedDraftOrDone ==
    [][(/\ PortalStep({"render_survey", "submit_survey"})
        /\ \E p \in parts :
              /\ p.evaluation_token = response'.token
              /\ \/ evalState[p.evaluation_id] \in {"closed", "draft"}
                 \/ \E u \in inputs : /\ u.partner_id = p.student_id
                                      /\ u.survey_id = response'.survey_id
                                      /\ u.state = "done")
          => /\ ~response'.hook
             /\ NothingWritten]_vars

\* every survey of the evaluation has a done response of the student
EverySurveyAnswered(ins, p) ==
    \A sv \in evalSurveys[p.evaluation_id] :
        \E u \in ins : /\ u.partner_id = p.student_id
                       /\ u.survey_id = sv
                       /\ u.state = "done"

\* C20: when a submit through the portal is accepted for a pending
\* participation of an active evaluation and, with it, the student has
\* submitted every survey of the evaluation, the participation is completed
\* when the submit finishes, whether the evaluation was activated before or
\* after its date_start
C20_AllSubmittedCompletes ==
    [][\A p \in parts :
          (/\ PortalStep({"submit_survey"})
           /\ response'.hook
           /\ p.evaluation_token = response'.token
           /\ p.state = "pending"
           /\ evalState[p.evaluation_id] = "active"
           /\ EverySurveyAnswered(inputs', p))
             => \E q \in parts' : /\ q.evaluation_token = p.evaluation_token
                                  /\ q.state = "completed"]_vars


\* ------------------------------------------------------------------------
\* Specification of the scoring of one response
\* ------------------------------------------------------------------------
\* the rows of a matrix question: the first rows answered with one ordinal,
\* the last row answered with any ordinal or left without an answer
MatrixRows(n, ordinals) ==
    {[r \in 1..n |-> IF r < n THEN a ELSE b]
        : a \in ordinals \ {0}, b \in ordinals}

\* a done response of student 1 to WHO-5 (one matrix question of 5 rows,
\* ordinals 1..5) or to Bullying-VA (two matrix questions of 7 rows,
\* ordinals 1..4)
ScoringResponse(key, lines) ==
    [id |-> 1, partner_id |-> 1, survey_id |-> 1, answered_text |-> FALSE,
     state |-> "done", create_date |-> 0, strategy_key |-> key, lines |-> lines]

ScoringResponses ==
    {ScoringResponse("WHO5", <<rows>>) : rows \in MatrixRows(5, 0..5)}
    \cup {ScoringResponse("BULLYING_VA", <<v, a>>)
            : v \in MatrixRows(7, {0, 1, 4}), a \in MatrixRows(7, {0, 2, 3})}

\* what a scoring call returns
ScoringResult(route, u, order, metrics) ==
    [route |-> route, strategy_key |-> u.strategy_key, lines |-> u.lines,
     order |-> order, metrics |-> metrics]

\* survey.calculate_scores(user_input) on the WHO-5 survey
calculate_scores_call(u) ==
    /\ u.strategy_key = survey_code[u.survey_id]
    /\ response' = ScoringResult("calculate_scores", u, <<>>,
                                 calculate_scores(u.survey_id, u))
    /\ last' = Op("calculate_scores", 0, <<>>, FALSE)
    /\ UNCHANGED <<now, evalState, evalSurveys, evalGroups, dateStart, dateEnd,
                   studentGroup, parts, inputs, thresholds, keywords, alerts, user_groups,
                   tutor_id, metric_values, qualitative>>

\* Who5Scoring(survey, config).calculate(user_input)
Who5Scoring_call(u) ==
    /\ u.strategy_key = "WHO5"
    /\ response' = ScoringResult("Who5Scoring", u, <<>>,
                                 Who5Scoring_calculate(WHO5Config, u))
    /\ last' = Op("Who5Scoring", 0, <<>>, FALSE)
    /\ UNCHANGED <<now, evalState, evalSurveys, evalGroups, dateStart, dateEnd,
                   studentGroup, parts, inputs, thresholds, keywords, alerts, user_groups,
                   tutor_id, metric_values, qualitative>>

\* BullyingVAScoring(survey, config).calculate(user_input), the subscales of
\* the configuration written in the order given
BullyingVAScoring_call(u, order) ==
    /\ u.strategy_key = "BULLYING_VA"
    /\ response' = ScoringResult("BullyingVAScoring", u, order,
                                 BullyingVAScoring_calculate(BullyingConfig(order), u))
    /\ last' = Op("BullyingVAScoring", 0, <<>>, FALSE)
    /\ UNCHANGED <<now, evalState, evalSurveys, evalGroups, dateStart, dateEnd,
                   studentGroup, parts, inputs, thresholds, keywords, alerts, user_groups,
                   tutor_id, metric_values, qualitative>>

InitScoring ==
    /\ now = 0
    /\ evalState = [e \in Evaluations |-> "active"]
    /\ evalSurveys = [e \in Evaluations |-> {1}]
    /\ evalGroups = [e \in Evaluations |-> {1}]
    /\ dateStart = [e \in Evaluations |-> 0]
    /\ dateEnd = [e \in Evaluations |-> 2]
    /\ studentGroup = [s \in Students |-> 1]
    /\ parts = _create_participations({}, 1).parts
    /\ last = NoOp
    /\ \E u \in ScoringResponses : inputs = {u}
    /\ AlertIdle
    /\ DashboardIdle

NextScoring ==
    \/ \E u \in inputs : calculate_scores_call(u)
    \/ \E u \in inputs : Who5Scoring_call(u)
    \/ \E u \in inputs, order \in SubscaleOrders : BullyingVAScoring_call(u, order)

SpecScoring == InitScoring /\ [][NextScoring]_vars

\* the metrics of a name in a result
MetricsNamed(metrics, name) ==
    {metrics[i].value_float : i \in {j \in DOMAIN metrics : metrics[j].metric_name = name}}

\* the mean of ordinal / max_ordinal * 100 over the answered rows
MeanOfAnswered(rows, max_sequence) ==
    LET a == answered(rows)
    IN RatDiv(RatSum([i \in DOMAIN a |-> Rat(a[i] * 100, max_sequence)]), Len(a))

\* C15: calculate_scores on a done WHO-5 response returns who5_score, the
\* mean over the answered rows of ordinal / 5 * 100, exactly when the 5 rows
\* are answered (100 when every row is answered with 5), and no who5_score
\* when fewer rows are answered
C15_Who5ScoreThroughSurvey ==
    (response.route = "calculate_scores" /\ response.strategy_key = "WHO5")
        => LET rows == response.lines[1]
           IN MetricsNamed(response.metrics, "who5_score")
                  = IF Len(answered(rows)) = 5
                    THEN {MeanOfAnswered(rows, 5)}
                    ELSE {}

\* C16: the Bullying-VA strategy returns bullying_score, the mean of
\* victimization_score and aggression_score, when both were computed,
\* whatever the order of the subscales in the configuration, and no
\* bullying_score when only one of the two (or none) was computed
C16_BullyingScoreNeedsBoth ==
    response.route = "BullyingVAScoring"
        => LET v == MetricsNamed(response.metrics, "victimization_score")
               a == MetricsNamed(response.metrics, "aggression_score")
           IN MetricsNamed(response.metrics, "bullying_score")
                  = IF v # {} /\ a # {}
                    THEN {RatDiv(RatAdd(CHOOSE x \in v : TRUE, CHOOSE y \in a : TRUE), 2)}
                    ELSE {}

\* C17: the Resolve wizard is not confirmed with a text of fewer than 10
\* characters once stripped: a validation error is raised and the status,
\* resolution_action and resolution_date of the alert stay as they were;
\* with 10 characters or more the alert becomes resolved and carries the
\* text and the time of the resolution
C17_ResolveNeedsTenCharacters ==
    [][last'.op = "action_confirm_resolve"
          => \A a \in alerts :
                a.id = last'.p[1]
                   => IF last'.p[2] < 10
                      THEN last'.raised /\ alerts' = alerts
                      ELSE /\ ~last'.raised
                           /\ [a EXCEPT !.status = "resolved",
                                        !.resolution_action = last'.p[2] + last'.p[3],
                                        !.resolution_date = now] \in alerts'
                           /\ \A b \in alerts' : b.id = a.id => b.status = "resolved"]_vars

\* the wizard has just refused a text of 10 characters as typed that has 9
\* once stripped, on an alert that is active and has no resolution
C17_Witness ==
    /\ last.op = "action_confirm_resolve"
    /\ last.raised
    /\ last.p[2] < 10
    /\ last.p[2] + last.p[3] >= 10
    /\ \E a \in alerts : /\ a.id = last.p[1]
                         /\ a.status = "active"
                         /\ a.resolution_action = 0
                         /\ a.resolution_date = NoTime


\* ------------------------------------------------------------------------
\* Alert keywords (models/qualitative_response.py, AlertKeyword)
\* ------------------------------------------------------------------------
\* no parent keyword
NoKeyword == 0

\* the words the staff type, and the keyword the module's data brings
StaffWords == {"triste", "tristes"}
SystemWord == "suicidio"

\* _generate_accent_variants on the words of the model: the word without
\* accents when it differs, and the word with its first a, e, i, o or u
\* accented
_generate_accent_variants(word) ==
    IF word = "triste" THEN {"tristé", "tríste"}
    ELSE IF word = "tristes" THEN {"tristés", "trístes"}
    ELSE {}

\* _generate_grammatical_variants on the words of the model: the family of
\* the word in common_variants, and its plural when it does not end in s
_generate_grammatical_variants(word) ==
    IF word = "triste" THEN {"tristeza", "tristes"} \cup {"tristes"}
    ELSE {}

\* the variants _generate_variants keeps: not the word itself (every variant
\* of the model has more than 2 characters)
variants_of(word) ==
    (_generate_accent_variants(word) \cup _generate_grammatical_variants(word))
        \ {word}

\* the id of a new row: one that no row has
next_id(kw) == Min({i \in 1..(Cardinality(kw) + 1) : \A k \in kw : k.id # i})

RECURSIVE SeqOf(_)
\* the elements of a set, one after the other
SeqOf(S) ==
    IF S = {} THEN <<>>
    ELSE LET x == CHOOSE y \in S : TRUE IN <<x>> \o SeqOf(S \ {x})

\* the row super().create writes
KeywordRow(kw, word, system, variant, parent, active) ==
    [id |-> next_id(kw), keyword |-> word, is_system_default |-> system,
     is_variant |-> variant, parent_keyword_id |-> parent, active |-> active]

RECURSIVE VariantLoop(_, _, _)
\* the loop of _generate_variants: a variant that exists already is skipped,
\* the others become rows linked to the record
VariantLoop(kw, record, todo) ==
    IF todo = <<>> THEN kw
    ELSE LET variant == Head(todo)
             existing == {k \in kw : k.keyword = variant}
         IN VariantLoop(
                IF existing = {}
                THEN kw \cup {KeywordRow(kw, variant, FALSE, TRUE, record.id,
                                         record.active)}
                ELSE kw,
                record, Tail(todo))

\* AlertKeyword._generate_variants
_generate_variants(kw, record) ==
    VariantLoop(kw, record, SeqOf(variants_of(record.keyword)))

\* unique(keyword)
keyword_unique(kw, word, except) ==
    ~ \E k \in kw : k.keyword = word /\ k.id # except

\* DELETE of the rows and, by ondelete cascade, of the rows whose parent is
\* deleted
delete_rows(kw, ids) ==
    {k \in kw : k.id \notin ids /\ k.parent_keyword_id \notin ids}

\* the first record of the set that unlink refuses: none
unlink_protected_NoCheck(kw, ids) == {}

\* the records of the set that unlink refuses: the system-default ones
unlink_protected(kw, ids) ==
    {k \in kw : k.id \in ids /\ k.is_system_default}

\* what the last request on the keywords did: the ids it was called on and
\* the keyword the validation error names
KeywordResult(route, ids, word, named) ==
    [route |-> route, ids |-> ids, word |-> word, named |-> named]

\* AlertKeyword.create of a keyword typed by the staff
keyword_create(word) ==
    LET record == KeywordRow(keywords, word, FALSE, FALSE, NoKeyword, TRUE)
        ok == keyword_unique(keywords, word, NoKeyword)
    IN /\ keywords' = IF ok THEN _generate_variants(keywords \cup {record}, record)
                      ELSE keywords
       /\ response' = KeywordResult("create", IF ok THEN {record.id} ELSE {}, word, {})
       /\ last' = Op("keyword_create", 0, <<>>, ~ok)
       /\ UNCHANGED <<now, evalState, evalSurveys, evalGroups, dateStart, dateEnd,
                      studentGroup, parts, hookVars, thresholds, alerts, user_groups,
                      tutor_id, metric_values, qualitative>>

\* AlertKeyword.write({'keyword': word}) on one record
keyword_write(record, word) ==
    LET ok == keyword_unique(keywords, word, record.id)
        renamed == [record EXCEPT !.keyword = word]
        written == (keywords \ {record}) \cup {renamed}
        children == {k.id : k \in {c \in written : c.parent_keyword_id = record.id}}
    IN /\ record \in keywords
       /\ keywords' = IF ~ok THEN keywords
                      ELSE IF ~record.is_variant /\ ~record.is_system_default
                      THEN _generate_variants(delete_rows(written, children), renamed)
                      ELSE written
       /\ response' = KeywordResult("write", {record.id}, word, {})
       /\ last' = Op("keyword_write", 0, <<>>, ~ok)
       /\ UNCHANGED <<now, evalState, evalSurveys, evalGroups, dateStart, dateEnd,
                      studentGroup, parts, hookVars, thresholds, alerts, user_groups,
                      tutor_id, metric_values, qualitative>>

\* AlertKeyword.write({'active': False}) on one record
keyword_deactivate(record) ==
    /\ record \in keywords
    /\ record.active
    /\ keywords' = (keywords \ {record}) \cup {[record EXCEPT !.active = FALSE]}
    /\ response' = KeywordResult("deactivate", {record.id}, record.keyword, {})
    /\ last' = Op("keyword_deactivate", 0, <<>>, FALSE)
    /\ UNCHANGED <<now, evalState, evalSurveys, evalGroups, dateStart, dateEnd,
                   studentGroup, parts, hookVars, thresholds, alerts, user_groups,
                   tutor_id, metric_values, qualitative>>

\* AlertKeyword.unlink on a set of records: the first system-default record
\* met raises, otherwise the rows are deleted
keyword_unlink(ids) ==
    LET protected == unlink_protected(keywords, ids)
        first == CHOOSE k \in protected : \A j \in protected : k.id <= j.id
    IN /\ ids # {}
       /\ keywords' = IF protected = {} THEN delete_rows(keywords, ids) ELSE keywords
       /\ response' = KeywordResult("unlink", ids, "",
                                    IF protected = {} THEN {} ELSE {first.keyword})
       /\ last' = Op("keyword_unlink", 0, <<>>, protected # {})
       /\ UNCHANGED <<now, evalState, evalSurveys, evalGroups, dateStart, dateEnd,
                      studentGroup, parts, hookVars, thresholds, alerts, user_groups,
                      tutor_id, metric_values, qualitative>>

\* ------------------------------------------------------------------------
\* Specification of the alert keywords
\* ------------------------------------------------------------------------
\* the module's data has brought one system-default keyword
InitKeyword ==
    /\ now = 0
    /\ evalState = [e \in Evaluations |-> "draft"]
    /\ evalSurveys = [e \in Evaluations |-> {}]
    /\ evalGroups = [e \in Evaluations |-> {}]
    /\ dateStart = [e \in Evaluations |-> 0]
    /\ dateEnd = [e \in Evaluations |-> MaxTime]
    /\ studentGroup = [s \in Students |-> NoGroup]
    /\ parts = {}
    /\ last = NoOp
    /\ HookIdle
    /\ thresholds = {}
    /\ alerts = {}
    /\ keywords = {KeywordRow({}, SystemWord, TRUE, FALSE, NoKeyword, TRUE)}
    /\ DashboardIdle

\* the sets of one or two records unlink is called on
UnlinkSets ==
    {ids \in SUBSET {k.id : k \in keywords} : Cardinality(ids) \in {1, 2}}

NextKeyword ==
    \/ \E word \in StaffWords : keyword_create(word)
    \/ \E record \in {k \in keywords : ~k.is_variant}, word \in StaffWords :
          keyword_write(record, word)
    \/ \E record \in {k \in keywords : k.is_system_default} :
          keyword_deactivate(record)
    \/ \E ids \in UnlinkSets : keyword_unlink(ids)

SpecKeyword == InitKeyword /\ [][NextKeyword]_vars


\* the rows of the ids a request was called on
RowsOf(kw, ids) == {k \in kw : k.id \in ids}

\* C18: unlink on a set of alert keywords that holds a system-default
\* keyword raises a validation error that names a system-default keyword of
\* the set and deletes no keyword at all; a system-default keyword can be
\* deactivated
C18_SystemKeywordNotDeleted ==
    [][/\ (/\ last'.op = "keyword_unlink"
           /\ \E k \in RowsOf(keywords, response'.ids) : k.is_system_default)
             => /\ last'.raised
                /\ keywords' = keywords
                /\ response'.named # {}
                /\ response'.named \subseteq
                       {k.keyword : k \in {x \in RowsOf(keywords, response'.ids) :
                                              x.is_system_default}}
       /\ (/\ last'.op = "keyword_deactivate"
           /\ \E k \in RowsOf(keywords, response'.ids) : k.is_system_default)
             => /\ ~last'.raised
                /\ \A k \in RowsOf(keywords', response'.ids) :
                      k.is_system_default /\ ~k.active]_vars

\* unlink has just been refused on a set of two keywords, the system-default
\* one, which had been deactivated, and one typed by the staff: both are
\* still there
C18_Witness ==
    /\ last.op = "keyword_unlink"
    /\ last.raised
    /\ Cardinality(RowsOf(keywords, response.ids)) = 2
    /\ \E k \in RowsOf(keywords, response.ids) : k.is_system_default /\ ~k.active
    /\ \E k \in RowsOf(keywords, response.ids) : ~k.is_system_default /\ ~k.is_variant

\* C19: creating a keyword that is neither system-default nor a variant
\* creates its variants as rows linked to it ("triste": "tristeza" and
\* "tristes", unless the word is a keyword already); a variant row is not
\* deleted without its parent; changing the keyword of the parent leaves it
\* with the variants of the new word only; deleting the parent deletes its
\* variant rows
C19_VariantsFollowParent ==
    [][/\ (last'.op = "keyword_create" /\ ~last'.raised /\ response'.word = "triste")
             => \A v \in {"tristeza", "tristes"} :
                   (~ \E k \in keywords : k.keyword = v)
                      => \E c \in keywords' : /\ c.keyword = v
                                              /\ c.is_variant
                                              /\ c.parent_keyword_id \in response'.ids
       /\ (/\ last'.op = "keyword_unlink"
           /\ \E c \in RowsOf(keywords, response'.ids) :
                 c.is_variant /\ c.parent_keyword_id \notin response'.ids)
             => last'.raised /\ keywords' = keywords
       /\ (/\ last'.op = "keyword_write" /\ ~last'.raised
           /\ \E r \in RowsOf(keywords, response'.ids) :
                 ~r.is_variant /\ ~r.is_system_default)
             => \A c \in keywords' :
                   c.parent_keyword_id \in response'.ids
                      => c.keyword \in variants_of(response'.word)
       /\ (last'.op = "keyword_unlink" /\ ~last'.raised)
             => \A c \in keywords' : c.parent_keyword_id \notin response'.ids]_vars

\* ------------------------------------------------------------------------
\* The scheduled run of auto_update_evaluation_states
\* ------------------------------------------------------------------------
\* C24: one run of auto_update_evaluation_states at time now activates every
\* scheduled evaluation whose date_start <= now and then closes every active
\* evaluation whose date_end <= now, those it has just activated included:
\* after the run no evaluation is scheduled with date_start <= now or active
\* with date_end <= now, and an evaluation in draft, closed or cancelled keeps
\* its state and its participations.
C24_AutoUpdateRun ==
    [][last'.op = "auto_update_evaluation_states"
          => \A e \in Evaluations :
                /\ ~(evalState'[e] = "scheduled" /\ dateStart[e] <= now)
                /\ ~(evalState'[e] = "active" /\ dateEnd[e] <= now)
                /\ (evalState[e] = "scheduled" /\ dateStart[e] <= now)
                      => evalState'[e] = IF dateEnd[e] <= now THEN "closed"
                                         ELSE "active"
                /\ (evalState[e] = "active" /\ dateEnd[e] <= now)
                      => evalState'[e] = "closed"
                /\ evalState[e] \in {"draft", "closed", "cancelled"}
                      => /\ evalState'[e] = evalState[e]
                         /\ participation_ids(parts', e) = participation_ids(parts, e)]_vars

\* a run has just activated a scheduled evaluation whose end had passed too
\* and closed it in the same run, expiring a pending participation
C24_Witness ==
    /\ last.op = "auto_update_evaluation_states"
    /\ \E e \in Evaluations :
          /\ last.p = <<e>>
          /\ dateEnd[e] <= now
          /\ evalState[e] = "closed"
          /\ \E p \in participation_ids(parts, e) : p.state = "expired"

\* ------------------------------------------------------------------------
\* The participation figures of an evaluation
\* ------------------------------------------------------------------------
RECURSIVE SumOf(_, _)
\* sum(f[x] for x in S)
SumOf(f, S) ==
    IF S = {} THEN 0
    ELSE LET x == CHOOSE y \in S : TRUE IN f[x] + SumOf(f, S \ {x})

\* Evaluation._compute_participation_metrics, recomputed whenever a
\* participation's state or a group's students change: the students of the
\* assigned groups as they are now, the completed participations on file, and
\* completed / total * 100 as an exact fraction
_compute_participation_metrics(e) ==
    LET total == SumOf([g \in Groups |-> total_students(g)], evalGroups[e])
        completed == Cardinality({p \in participation_ids(parts, e) :
                                     p.state = "completed"})
    IN [total_students |-> total,
        completed_students |-> completed,
        participation_rate |-> IF total > 0 THEN Rat(completed * 100, total)
                               ELSE Rat(0, 1)]

\* C30: in every state of an evaluation completed_students <= total_students
\* and 0 <= participation_rate <= 100, with participation_rate = 0 when
\* total_students = 0, also after a student whose participation is completed
\* has left an assigned group.
C30_ParticipationFiguresBounded ==
    \A e \in Evaluations :
        LET m == _compute_participation_metrics(e)
        IN /\ m.completed_students <= m.total_students
           /\ 0 <= m.participation_rate.num
           /\ m.participation_rate.num <= 100 * m.participation_rate.den
           /\ m.total_students = 0 => m.participation_rate.num = 0

\* ------------------------------------------------------------------------
\* The status of an alert
\* ------------------------------------------------------------------------
\* C27: an alert's status changes only from active to resolved (by the
\* confirm of the Resolve wizard) or from active to dismissed (by
\* action_dismiss): whatever is called on a resolved or dismissed alert leaves
\* its status, resolution_action and resolution_date as they were, and no
\* alert goes back to active.
C27_AlertStatusOneWay ==
    [][\A a \in alerts :
          \E b \in alerts' :
             /\ b.id = a.id
             /\ a.status = "active"
                   => \/ b.status = "active"
                      \/ last'.op = "action_confirm_resolve" /\ b.status = "resolved"
                      \/ last'.op = "action_dismiss" /\ b.status = "dismissed"
             /\ a.status # "active"
                   => /\ b.status = a.status
                      /\ b.resolution_action = a.resolution_action
                      /\ b.resolution_date = a.resolution_date]_vars

\* ------------------------------------------------------------------------
\* The role resolved by the two dashboard controllers
\* ------------------------------------------------------------------------
\* the access tier a resolved role stands for
AccessTier(role) ==
    IF role \in {"admin", "counselor"} THEN "identified"
    ELSE IF role = "management" THEN "aggregate"
    ELSE "own_groups"

\* the first of admin, counselor, management the user is a member of, tutor
\* otherwise
RoleByPriority(groups) ==
    IF "admin" \in groups THEN "admin"
    ELSE IF "counselor" \in groups THEN "counselor"
    ELSE IF "management" \in groups THEN "management"
    ELSE "tutor"

\* C29: for every set of role groups of the user, none included, the Hub
\* resolves the role in the order admin, counselor, management, tutor (the
\* default), and the Qualitative Dashboard answers the user in the same
\* access tier as the Hub resolves: identified rows for admin and counselor,
\* aggregates only for management, the own groups for everyone else.
C29_SameTierInBothControllers ==
    /\ _detect_user_role.role = RoleByPriority(user_groups)
    /\ response.route = "qualitative_dashboard"
          => AccessTier(response.role) = AccessTier(_detect_user_role.role)

\* ------------------------------------------------------------------------
\* A new alert after the earlier one was resolved or dismissed
\* ------------------------------------------------------------------------
\* the active individual alerts of a threshold on a participation
ActiveIndividualAlerts(al, t, p) ==
    {a \in IndividualAlerts(al, t, p) : a.status = "active"}

\* C26: in the check run on a participation, for an active threshold about a
\* survey of the evaluation whose comparison holds, the creation of the
\* individual alert is skipped exactly when an active alert of the threshold
\* on the participation exists: with one, no row is added; with none, also
\* when the earlier ones are resolved or dismissed, the check adds one active
\* individual alert.
C26_NewAlertAfterResolved ==
    [][\A p \in parts, t \in thresholds :
          /\ last'.op = "check_alerts"
          /\ last'.p = p.evaluation_token
          /\ Applicable(t, p)
          /\ ComparisonHolds(t, p)
          => IF ActiveIndividualAlerts(alerts, t, p) # {}
             THEN IndividualAlerts(alerts', t, p) = IndividualAlerts(alerts, t, p)
             ELSE /\ IndividualAlerts(alerts, t, p) \subseteq IndividualAlerts(alerts', t, p)
                  /\ Cardinality(IndividualAlerts(alerts', t, p))
                        = Cardinality(IndividualAlerts(alerts, t, p)) + 1
                  /\ Cardinality(ActiveIndividualAlerts(alerts', t, p)) = 1]_vars

\* ------------------------------------------------------------------------
\* The completion hook, one step per database access
\* (SurveyUserInput._mark_done run by two requests at once)
\* ------------------------------------------------------------------------
\* the requests that run _mark_done
Invocations == {1, 2}

\* an invocation that has not started: pc is its position in _mark_done, u
\* the response record, todo the text questions left to capture, p the
\* participation found, trace the steps run so far, checked the metric values
\* on file when the alert check ran, wanted whether the count asked for
\* action_complete, after the invocation that had finished on the same
\* response record when this one started (0: none)
IdleInvocation ==
    [pc |-> "idle", u |-> 0, todo |-> <<>>, p |-> <<>>, trace |-> <<>>,
     checked |-> {}, wanted |-> FALSE, after |-> 0]

\* the response record of an invocation, as it is on file
input_of(id) == CHOOSE u \in inputs : u.id = id

\* the participation of a token, as it is on file
participation_of(token) == CHOOSE p \in parts : p.evaluation_token = token

\* the metric values on file for a participation
metrics_of(mv, p) ==
    {m \in mv : m.student_id = p.student_id /\ m.evaluation_id = p.evaluation_id}

\* an invocation moves on: only response changes besides the tables written
StepTo(i, proc) ==
    response' = [response EXCEPT !.procs[i] = proc]

\* line 14: super()._mark_done() writes state = done on the response record
mark_done_host(i, u) ==
    /\ response.procs[i].pc = "idle"
    /\ u \in inputs
    /\ inputs' = (inputs \ {u}) \cup {[u EXCEPT !.state = "done"]}
    /\ StepTo(i, [IdleInvocation EXCEPT
                     !.pc = "qualitative",
                     !.u = u.id,
                     !.after = IF \E j \in Invocations \ {i} :
                                      /\ response.procs[j].pc = "done"
                                      /\ response.procs[j].u = u.id
                               THEN CHOOSE j \in Invocations \ {i} :
                                        /\ response.procs[j].pc = "done"
                                        /\ response.procs[j].u = u.id
                               ELSE 0])
    /\ last' = Op("mark_done_host", 0, <<i>>, FALSE)
    /\ UNCHANGED <<now, evalState, evalSurveys, evalGroups, dateStart, dateEnd,
                   studentGroup, parts, alertVars, user_groups, tutor_id,
                   metric_values, qualitative>>

\* the evaluation _save_qualitative_responses picks: scheduled or active,
\* with the survey, order date_start desc, limit 1
qualitative_evaluation(u) ==
    {e \in Evaluations :
        /\ evalState[e] \in {"scheduled", "active"}
        /\ u.survey_id \in evalSurveys[e]
        /\ \A f \in Evaluations :
              evalState[f] \in {"scheduled", "active"} /\ u.survey_id \in evalSurveys[f]
              => dateStart[f] <= dateStart[e]}

\* lines 25-28 and 75-137: _save_qualitative_responses up to the search for an
\* existing row of the next text question (raises: the call fails and the
\* except of line 27 takes over)
qualitative_search(i, raises) ==
    LET proc == response.procs[i]
        u == input_of(proc.u)
        evaluation == qualitative_evaluation(u)
        participation == {p \in parts : p.evaluation_id \in evaluation
                                        /\ p.student_id = u.partner_id}
        returns == \/ text_questions(u.survey_id) = {}
                   \/ evaluation = {}
                   \/ participation = {}
                   \/ studentGroup[u.partner_id] = NoGroup
        todo == IF proc.todo = <<>> /\ proc.pc = "qualitative"
                THEN SortedSeq(text_questions(u.survey_id))
                ELSE proc.todo
        existing == \E r \in qualitative : /\ r.user_input_id = u.id
                                           /\ r.question_id = Head(todo)
    IN /\ proc.pc \in {"qualitative", "qualitative_next"}
       /\ raises => proc.pc = "qualitative"
       /\ IF raises
          THEN StepTo(i, [proc EXCEPT !.pc = "evaluations",
                                      !.trace = Append(@, "qualitative_raised")])
          ELSE IF returns \/ todo = <<>>
          THEN StepTo(i, [proc EXCEPT !.pc = "evaluations", !.todo = <<>>,
                                      !.trace = Append(@, "qualitative")])
          ELSE IF ~u.answered_text \/ existing
          THEN StepTo(i, [proc EXCEPT !.pc = IF Tail(todo) = <<>> THEN "evaluations"
                                             ELSE "qualitative_next",
                                      !.todo = Tail(todo),
                                      !.trace = IF Tail(todo) = <<>>
                                                THEN Append(@, "qualitative")
                                                ELSE @])
          ELSE StepTo(i, [proc EXCEPT !.pc = "qualitative_create", !.todo = todo])
       /\ last' = Op("qualitative_search", 0, <<i>>, raises)
       /\ UNCHANGED <<now, evalState, evalSurveys, evalGroups, dateStart, dateEnd,
                      studentGroup, parts, hookVars, alertVars, user_groups, tutor_id,
                      metric_values, qualitative>>

\* QualitativeResponse.create: the row gets the next id
QualitativeResponseCreate(qs, vals) ==
    qs \cup {[id |-> Cardinality(qs) + 1,
              student_id |-> vals.student_id,
              academic_group_id |-> vals.academic_group_id,
              evaluation_id |-> vals.evaluation_id,
              survey_id |-> vals.survey_id,
              question_id |-> vals.question_id,
              user_input_id |-> vals.user_input_id]}

\* lines 139-149: the create that follows a search that found no row
qualitative_create(i) ==
    LET proc == response.procs[i]
        u == input_of(proc.u)
    IN /\ proc.pc = "qualitative_create"
       /\ qualitative' = QualitativeResponseCreate(qualitative,
              [student_id |-> u.partner_id,
               academic_group_id |-> studentGroup[u.partner_id],
               evaluation_id |-> CHOOSE e \in qualitative_evaluation(u) : TRUE,
               survey_id |-> u.survey_id,
               question_id |-> Head(proc.todo),
               user_input_id |-> u.id])
       /\ StepTo(i, [proc EXCEPT !.pc = IF Tail(proc.todo) = <<>> THEN "evaluations"
                                        ELSE "qualitative_next",
                                 !.todo = Tail(proc.todo),
                                 !.trace = IF Tail(proc.todo) = <<>>
                                           THEN Append(@, "qualitative")
                                           ELSE @])
       /\ last' = OpN("qualitative_create", 0, <<i>>, FALSE, 1)
       /\ UNCHANGED <<now, evalState, evalSurveys, evalGroups, dateStart, dateEnd,
                      studentGroup, parts, hookVars, alertVars, user_groups, tutor_id,
                      metric_values>>

\* where _mark_done goes after participation._calculate_scores(), without the
\* call of check_alerts
after_scoring_NoCheck(raised) == "completion"

\* lines 49-53: check_alerts follows _calculate_scores in the same try, so it
\* runs only when _calculate_scores has returned
after_scoring(raised) == IF raised THEN "completion" ELSE "alerts"

\* lines 30-50: the search for the evaluations and for the pending
\* participation, then participation._calculate_scores() (raises: the call
\* fails)
scoring(i, raises) ==
    LET proc == response.procs[i]
        u == input_of(proc.u)
        evaluations == {e \in Evaluations :
                           /\ evalState[e] \in {"scheduled", "active"}
                           /\ u.survey_id \in evalSurveys[e]}
        found == {p \in parts : /\ p.evaluation_id \in evaluations
                                /\ p.student_id = u.partner_id
                                /\ p.state = "pending"}
        participation == CHOOSE p \in found : TRUE
    IN /\ proc.pc = "evaluations"
       /\ raises => found # {}
       /\ IF found = {}
          THEN /\ StepTo(i, [proc EXCEPT !.pc = "done"])
               /\ UNCHANGED metric_values
          ELSE /\ StepTo(i, [proc EXCEPT
                                !.pc = after_scoring(raises),
                                !.p = participation.evaluation_token,
                                !.trace = Append(@, IF raises THEN "scoring_raised"
                                                    ELSE "scoring")])
               /\ metric_values' = IF raises THEN metric_values
                                   ELSE _calculate_scores(metric_values, inputs,
                                                          participation)
       /\ last' = Op("scoring", 0, <<i>>, raises)
       /\ UNCHANGED <<now, evalState, evalSurveys, evalGroups, dateStart, dateEnd,
                      studentGroup, parts, hookVars, alertVars, user_groups, tutor_id,
                      qualitative>>

\* line 51: participation.check_alerts(), its exception caught at line 52
alert_check(i) ==
    LET proc == response.procs[i]
        participation == participation_of(proc.p)
        chk == check_alerts_for_participation(alerts, thresholds, participation)
    IN /\ proc.pc = "alerts"
       /\ alerts' = chk.alerts
       /\ StepTo(i, [proc EXCEPT !.pc = "completion",
                                 !.checked = metrics_of(metric_values, participation),
                                 !.trace = Append(@, IF chk.ok THEN "alerts"
                                                     ELSE "alerts_raised")])
       /\ last' = Op("alert_check", 0, <<i>>, ~chk.ok)
       /\ UNCHANGED <<now, evalState, evalSurveys, evalGroups, dateStart, dateEnd,
                      studentGroup, parts, hookVars, thresholds, keywords, user_groups,
                      tutor_id, metric_values, qualitative>>

\* lines 56-68: the count of the done responses and, when it equals the
\* number of surveys, action_complete, which scores again (raises: that call
\* fails, and the except of line 67 takes over) and writes completed
completion(i, raises) ==
    LET proc == response.procs[i]
        u == input_of(proc.u)
        participation == participation_of(proc.p)
        all_surveys == evalSurveys[participation.evaluation_id]
        complete == completed_surveys(inputs, u.partner_id, all_surveys,
                                      dateStart[participation.evaluation_id])
                       = Cardinality(all_surveys)
        pending == participation.state = "pending"
    IN /\ proc.pc = "completion"
       /\ raises => complete /\ pending
       /\ IF complete /\ pending /\ ~raises
          THEN /\ metric_values' = _calculate_scores(metric_values, inputs, participation)
               /\ parts' = (parts \ {participation})
                              \cup {CompleteOne(participation, now)}
               /\ StepTo(i, [proc EXCEPT !.pc = "done", !.wanted = TRUE,
                                         !.trace = @ \o <<"scoring", "completed">>])
          ELSE /\ UNCHANGED <<metric_values, parts>>
               /\ StepTo(i, [proc EXCEPT !.pc = "done", !.wanted = complete,
                                         !.trace = IF raises
                                                   THEN Append(@, "scoring_raised")
                                                   ELSE @])
       /\ last' = Op("completion", 0, <<i>>, raises)
       /\ UNCHANGED <<now, evalState, evalSurveys, evalGroups, dateStart, dateEnd,
                      studentGroup, hookVars, alertVars, user_groups, tutor_id,
                      qualitative>>

\* the responses of student 1 that are about to be completed: one to the
\* centre's own survey, with or without a text answered, and one to WHO-5
StepInputs ==
    {{[id |-> 1, partner_id |-> 1, survey_id |-> 2, answered_text |-> txt,
       state |-> "in_progress", create_date |-> 1]}
        \cup IF both
             THEN {[id |-> 2, partner_id |-> 1, survey_id |-> 1,
                    answered_text |-> FALSE, state |-> "in_progress",
                    create_date |-> 1]}
             ELSE {}
        : txt \in BOOLEAN, both \in BOOLEAN}

\* an active evaluation of one or two surveys, a pending participation for
\* each student of its group, the responses started, no invocation running
InitHookSteps ==
    /\ now = 1
    /\ evalState = [e \in Evaluations |-> "active"]
    /\ evalSurveys \in [Evaluations -> {{2}, {1, 2}}]
    /\ evalGroups = [e \in Evaluations |-> {1}]
    /\ dateStart = [e \in Evaluations |-> 1]
    /\ dateEnd = [e \in Evaluations |-> 2]
    /\ studentGroup = [s \in Students |-> 1]
    /\ parts = _create_participations({}, 1).parts
    /\ last = NoOp
    /\ inputs \in StepInputs
    /\ thresholds = {DefaultThreshold}
    /\ keywords = {}
    /\ alerts = {}
    /\ user_groups = {}
    /\ tutor_id = [g \in Groups |-> NoUser]
    /\ metric_values = {}
    /\ qualitative = {}
    /\ response = [route |-> "_mark_done",
                   procs |-> [i \in Invocations |-> IdleInvocation]]

NextHookSteps ==
    \/ \E i \in Invocations, u \in inputs : mark_done_host(i, u)
    \/ \E i \in Invocations, raises \in BOOLEAN : qualitative_search(i, raises)
    \/ \E i \in Invocations : qualitative_create(i)
    \/ \E i \in Invocations, raises \in BOOLEAN : scoring(i, raises)
    \/ \E i \in Invocations : alert_check(i)
    \/ \E i \in Invocations, raises \in BOOLEAN : completion(i, raises)

SpecHookSteps == InitHookSteps /\ [][NextHookSteps]_vars

\* ------------------------------------------------------------------------
\* Properties of the steps of the completion hook
\* ------------------------------------------------------------------------
\* the positions of the steps named in a trace
Positions(trace, names) == {k \in DOMAIN trace : trace[k] \in names}

AlertSteps == {"alerts", "alerts_raised"}

\* no injected failure in the trace (the alert check's own exception is not one)
FaultFree(trace) == Positions(trace, {"qualitative_raised", "scoring_raised"}) = {}

C21_Order ==
    response.route = "_mark_done"
        => \A i \in Invocations :
              LET trace == response.procs[i].trace
              IN FaultFree(trace)
                    => /\ Positions(trace, {"qualitative"}) \subseteq {1}
                       /\ \A k \in Positions(trace, {"scoring"}) :
                             Positions(trace, {"qualitative"}) = {1} /\ k > 1
                       /\ \A k \in Positions(trace, AlertSteps) :
                             \E j \in Positions(trace, {"scoring"}) : j < k
                       /\ \A k \in Positions(trace, {"completed"}) :
                             \E j \in Positions(trace, AlertSteps) : j < k

C21_CheckedValues ==
    \A i \in Invocations :
        (/\ last'.op = "completion"
         /\ last'.p = <<i>>
         /\ Positions(response'.procs[i].trace, {"completed"}) # {}
         /\ FaultFree(response'.procs[i].trace))
            => metrics_of(metric_values', participation_of(response.procs[i].p))
                  = response.procs[i].checked

C23_FailureDoesNotBlock ==
    response.route = "_mark_done"
        => \A i \in Invocations :
              LET proc == response.procs[i]
              IN (/\ proc.pc = "done"
                  /\ proc.p # <<>>
                  /\ ~FaultFree(proc.trace))
                    => /\ Positions(proc.trace, AlertSteps) # {}
                       /\ proc.wanted => participation_of(proc.p).state = "completed"
                       /\ input_of(proc.u).state = "done"

\* the key of a metric value
MetricKey(m) == <<m.survey_id, m.student_id, m.evaluation_id, m.metric_name>>

SecondFiringStep(i) ==
    /\ last'.p = <<i>>
    /\ response'.procs[i].after # 0
    /\ FaultFree(response'.procs[i].trace)
    /\ FaultFree(response.procs[response'.procs[i].after].trace)

\* the second firing of the hook on a done response record changes nothing
C22_SecondFiringChangesNothing ==
    response.route = "_mark_done"
        => \A i \in Invocations :
              SecondFiringStep(i)
                 => /\ inputs' = inputs
                    /\ qualitative' = qualitative
                    /\ metric_values' = metric_values
                    /\ alerts' = alerts
                    /\ parts' = parts

C22_HookPart == [][C22_SecondFiringChangesNothing]_vars

\* the second firing has finished, once on a completed participation and
\* once on one still pending
C22_HookWitness ==
    /\ response.route = "_mark_done"
    /\ \E i \in Invocations :
          /\ response.procs[i].after # 0
          /\ response.procs[i].pc = "done"
          /\ response.procs[i].p # <<>>

\* ------------------------------------------------------------------------
\* The metric values created from the descriptors of a strategy
\* (GenericAdHocScoring, Participation._calculate_scores lines 164-179)
\* ------------------------------------------------------------------------
MaxMetricRows == 3

\* a value slot of a descriptor or of a row: <<>> is None, <<v>> the value v
\* the questions of the centre's own survey, by question.id: 1 a text box,
\* 2 a simple choice, 3 a matrix

question_type(q) ==
    IF q = 1 THEN "text_box"
    ELSE IF q = 2 THEN "simple_choice"
    ELSE "matrix"

\* f"adhoc_q{question.id}"
adhoc_metric_name(q) ==
    IF q = 1 THEN "adhoc_q1"
    ELSE IF q = 2 THEN "adhoc_q2"
    ELSE "adhoc_q3"

\* a user_input_line: its question, the sequence of its suggested answer
\* (0: no suggested answer) and whether it carries a text
Line(q, sequence, text) == [question_id |-> q, sequence |-> sequence, text |-> text]

\* a metric descriptor (metric_label left out)
Descriptor(name, q, value_float, value_text) ==
    [metric_name |-> name, question_id |-> q, value_float |-> value_float,
     value_text |-> value_text, value_json |-> <<>>]

\* the body of the loop of GenericAdHocScoring.calculate for one line
adhoc_metric(config, line) ==
    LET q == line.question_id
    IN IF question_type(q) \in {"simple_choice", "multiple_choice"}
       THEN IF line.sequence # 0
            THEN <<Descriptor(adhoc_metric_name(q), q, <<>>, <<"label">>)>>
            ELSE <<>>
       ELSE IF question_type(q) = "matrix"
       THEN IF line.sequence # 0 /\ config.max_sequence # 0
            THEN <<Descriptor(adhoc_metric_name(q), q,
                              <<Rat(line.sequence * 100, config.max_sequence)>>,
                              <<"label">>)>>
            ELSE <<>>
       ELSE IF line.text
            THEN <<Descriptor(adhoc_metric_name(q), q, <<>>, <<"text">>)>>
            ELSE <<>>

RECURSIVE AdHocLoop(_, _)
AdHocLoop(config, lines) ==
    IF lines = <<>> THEN <<>>
    ELSE adhoc_metric(config, Head(lines)) \o AdHocLoop(config, Tail(lines))

\* GenericAdHocScoring.calculate
GenericAdHocScoring_calculate(config, u) == AdHocLoop(config, u.lines)

\* the descriptors Who5Scoring.calculate returns: value_float only, and no
\* question_id key
who5_descriptors(u) ==
    LET metrics == Who5Scoring_calculate(WHO5Config, u)
    IN [i \in DOMAIN metrics |->
           Descriptor(metrics[i].metric_name, 0, <<metrics[i].value_float>>, <<>>)]

\* the descriptors of the strategy registered for the response's survey,
\* called with (survey, config)
strategy_descriptors(u, config) ==
    IF u.strategy_key = "WHO5" THEN who5_descriptors(u)
    ELSE GenericAdHocScoring_calculate(config, u)

\* UNIQUE(survey_id, student_id, evaluation_id, metric_name, question_id):
\* a second row is rejected when the five columns are equal, and a NULL
\* question_id (0) is equal to nothing
unique_metric_per_response(mv, vals) ==
    ~ \E m \in mv : /\ m.survey_id = vals.survey_id
                    /\ m.student_id = vals.student_id
                    /\ m.evaluation_id = vals.evaluation_id
                    /\ m.metric_name = vals.metric_name
                    /\ m.question_id = vals.question_id
                    /\ vals.question_id # 0

\* MetricValue.create with the values _calculate_scores passes
MetricValueCreate(mv, p, sv, u, metric) ==
    mv \cup {[id |-> Cardinality(mv) + 1,
              survey_id |-> sv,
              student_id |-> p.student_id,
              evaluation_id |-> p.evaluation_id,
              user_input_id |-> u.id,
              question_id |-> metric.question_id,
              metric_name |-> metric.metric_name,
              value_float |-> metric.value_float,
              value_text |-> metric.value_text,
              value_json |-> metric.value_json,
              timestamp |-> now]}

RECURSIVE MetricLoop(_, _, _, _, _)
\* lines 165-179: one create per descriptor, with no search before it; the
\* exception of a rejected create leaves the loop
MetricLoop(st, p, sv, u, metrics) ==
    IF metrics = <<>> \/ ~st.ok THEN st
    ELSE LET vals == [survey_id |-> sv, student_id |-> p.student_id,
                      evaluation_id |-> p.evaluation_id,
                      metric_name |-> Head(metrics).metric_name,
                      question_id |-> Head(metrics).question_id]
         IN MetricLoop(
                IF unique_metric_per_response(st.rows, vals)
                THEN [ok |-> TRUE,
                      rows |-> MetricValueCreate(st.rows, p, sv, u, Head(metrics))]
                ELSE [ok |-> FALSE, rows |-> st.rows],
                p, sv, u, Tail(metrics))

\* what a call returns: the descriptors handed over and whether it raised
StoreResult(route, u, metrics, raised) ==
    [route |-> route, strategy_key |-> u.strategy_key, lines |-> u.lines,
     metrics |-> metrics, raised |-> raised]

\* GenericAdHocScoring(survey, config).calculate(user_input)
GenericAdHocScoring_call(u, config) ==
    /\ u.strategy_key = "ADHOC"
    /\ response' = StoreResult("GenericAdHocScoring", u,
                               GenericAdHocScoring_calculate(config, u), FALSE)
    /\ last' = Op("GenericAdHocScoring", 0, <<>>, FALSE)
    /\ UNCHANGED <<now, evalState, evalSurveys, evalGroups, dateStart, dateEnd,
                   studentGroup, parts, inputs, thresholds, keywords, alerts, user_groups,
                   tutor_id, metric_values, qualitative>>

\* lines 164-179 of Participation._calculate_scores on the descriptors the
\* strategy of the survey returns for the student's response; the rows of a
\* call that raises are not kept
_calculate_scores_rows(p, u, config) ==
    LET metrics == strategy_descriptors(u, config)
        st == MetricLoop([ok |-> TRUE, rows |-> metric_values], p, u.survey_id, u,
                         metrics)
    IN /\ p \in parts
       /\ p.student_id = u.partner_id
       /\ Cardinality(metric_values) + Len(metrics) <= MaxMetricRows
       /\ metric_values' = IF st.ok THEN st.rows ELSE metric_values
       /\ response' = StoreResult("_calculate_scores", u, metrics, ~st.ok)
       /\ last' = OpN("_calculate_scores", p.evaluation_id, p.evaluation_token, ~st.ok,
                      IF st.ok THEN Cardinality(st.rows) - Cardinality(metric_values)
                      ELSE 0)
       /\ UNCHANGED <<now, evalState, evalSurveys, evalGroups, dateStart, dateEnd,
                      studentGroup, parts, inputs, thresholds, keywords, alerts,
                      user_groups, tutor_id, qualitative>>

\* a done response of student 1 to WHO-5 (5 rows) or to the centre's own
\* survey: a text answered or not, a choice made or not, and up to two rows
\* of the matrix answered
StoreResponses ==
    {[id |-> 1, partner_id |-> 1, survey_id |-> 1, answered_text |-> FALSE,
      state |-> "done", create_date |-> 0, strategy_key |-> "WHO5",
      lines |-> <<rows>>] : rows \in MatrixRows(5, {0, 1, 5})}
    \cup
    {[id |-> 1, partner_id |-> 1, survey_id |-> 2, answered_text |-> txt,
      state |-> "done", create_date |-> 0, strategy_key |-> "ADHOC",
      lines |-> <<Line(1, 0, txt), Line(2, c, FALSE)>> \o m]
        : txt \in BOOLEAN, c \in {0, 2},
          m \in {<<>>} \cup {<<Line(3, a, FALSE)>> : a \in {1, 4}}
                 \cup {<<Line(3, 1, FALSE),
                         Line(3, 4, FALSE)>>}}

\* the configurations a strategy of the centre's own surveys can be given:
\* with the maximum ordinal of the matrix, or without one
AdHocConfigs == {[max_sequence |-> 4], [max_sequence |-> 0]}

\* an active evaluation of the two surveys, the participations of its group,
\* one done response and no metric value yet
InitStore ==
    /\ now = 0
    /\ evalState = [e \in Evaluations |-> "active"]
    /\ evalSurveys = [e \in Evaluations |-> {1, 2}]
    /\ evalGroups = [e \in Evaluations |-> {1}]
    /\ dateStart = [e \in Evaluations |-> 0]
    /\ dateEnd = [e \in Evaluations |-> 2]
    /\ studentGroup = [s \in Students |-> 1]
    /\ parts = _create_participations({}, 1).parts
    /\ last = NoOp
    /\ \E u \in StoreResponses : inputs = {u}
    /\ AlertIdle
    /\ DashboardIdle

NextStore ==
    \/ \E u \in inputs, config \in AdHocConfigs : GenericAdHocScoring_call(u, config)
    \/ \E p \in parts, u \in inputs, config \in AdHocConfigs :
          _calculate_scores_rows(p, u, config)

SpecStore == InitStore /\ [][NextStore]_vars

SameKey(m, p, sv, metric) ==
    /\ m.survey_id = sv
    /\ m.student_id = p.student_id
    /\ m.evaluation_id = p.evaluation_id
    /\ m.metric_name = metric.metric_name
    /\ m.question_id = metric.question_id

\* scoring a participation again: every descriptor handed to the creation
\* loop already has its row, and the loop creates no row and does not raise
C22_RescoreSkips ==
    (/\ last'.op = "_calculate_scores"
     /\ \A i \in DOMAIN response'.metrics :
           \E m \in metric_values :
              SameKey(m, participation_of(last'.p), (CHOOSE u \in inputs : TRUE).survey_id,
                      response'.metrics[i]))
        => /\ metric_values' = metric_values
           /\ ~last'.raised

====
